----------------------------- MODULE TelemetryLog ----------------------------
(***************************************************************************)
(* Usage records on their way to ClickHouse: the channel the request path  *)
(* writes to, the flusher task that inserts batches or spills them to the  *)
(* write-ahead log, and the log's replay.  One task owns the log; what may *)
(* come between its steps is a crash, and a call it makes may fail, or do  *)
(* its work and still fail.                                                *)
(*                                                                         *)
(* A file is a sequence of lines: a record, Blank (the end of a batch),    *)
(* Torn (what a broken write left of a record, always last), or Bad (a     *)
(* record that does not parse).  Sizes and offsets count lines; an offset  *)
(* is kept with its file, as the checkpoint beside it that no other file   *)
(* ever uses.  ClickHouse drops a batch whose deduplication token it has   *)
(* seen; the token stands for the records of a batch, in order.            *)
(*                                                                         *)
(* A definition that stands before the one it repeats with a mistake is a  *)
(* mutant.                                                                 *)
(***************************************************************************)
EXTENDS Sums, Sequences, Functions, FiniteSetsExt

CONSTANTS
  Arrivals,      \* the usage records made, in order
  Blank, Torn, Bad,
  Left,          \* lines of the file an earlier version left, none if empty
  ChannelSize,   \* what the channel holds
  BatchMax,      \* BATCH_MAX
  SegmentTarget, \* SEGMENT_TARGET_BYTES
  MaxSize,       \* max_bytes
  MaxSegments,   \* MAX_SEGMENTS, the file left not counted
  MaxFaults,     \* bound: calls to ClickHouse or the disk that fail
  MaxCrashes     \* bound: processes that end

Records == Range(Arrivals) \union (Range(Left) \ {Blank, Torn, Bad})

ASSUME LogAssumption ==
  /\ Arrivals \in Seq(Records) /\ IsInjective(Arrivals)
  /\ Left \in Seq(Records \union {Blank, Torn, Bad})
  /\ \A i \in DOMAIN Left : Left[i] = Torn => i = Len(Left)
  /\ \A i, j \in DOMAIN Left : Left[i] = Left[j] /\ Left[i] \in Records => i = j
  /\ Range(Left) \intersect Range(Arrivals) = {}
  /\ Blank \notin Records /\ Torn \notin Records /\ Bad \notin Records
  /\ Blank # Torn /\ Blank # Bad /\ Torn # Bad
  /\ {ChannelSize, BatchMax, SegmentTarget, MaxSize, MaxSegments} \subseteq Nat \ {0}
  /\ MaxFaults \in Nat /\ MaxCrashes \in Nat

VARIABLES
  channel,      \* records sent, not received
  buf,          \* records received, not in a batch yet
  task,         \* what the flusher is doing: see Idle
  drain,        \* a shutdown: "no", "asked", or "last" from its last flush on
  ready,        \* whether the schema was set up since the process started
  backoff,      \* whether inserts wait after a failure
  replay_backoff,
  files,        \* the log, in order of replay: [id, lines, offset]
  active,       \* the file this process appends to, 0 for none
  next,         \* the next file's id
  rows,         \* each record's rows in the usage table
  tokens,       \* deduplication tokens ClickHouse has seen
  faults, crashes,
  fresh,        \* records not made yet
  dropped,      \* records counted as dropped
  lost,         \* records that were only in the memory of a process that ended
  torn,         \* records of a batch that was spilled in part
  owed          \* records a shutdown found in memory

log == <<files, next>>
table == <<rows, tokens>>
history == <<fresh, dropped, lost, torn, owed>>
vars == <<channel, buf, task, drain, ready, backoff, replay_backoff, files, active, next, rows,
          tokens, faults, crashes, fresh, dropped, lost, torn, owed>>

\* The file an earlier version left; this one never writes to it.
Legacy == 1

\* The flusher between two messages, and inside one: inserting or spilling a batch,
\* or replaying one of the log's first file and committing it, up to end.
Idle == [at |-> "idle", batch |-> <<>>, end |-> 0]
Busy(at, batch) == [at |-> at, batch |-> batch, end |-> 0]

InMemory ==
  Range(channel) \union Range(buf)
    \union (IF task.at \in {"insert", "spill"} THEN Range(task.batch) ELSE {})
Unread(f) == Range(SubSeq(f.lines, f.offset + 1, Len(f.lines)))
OnDisk == (UNION {Unread(files[i]) : i \in DOMAIN files}) \intersect Records
-----------------------------------------------------------------------------
(* Calls that fail.                                                        *)

Fault == faults > 0 /\ faults' = faults - 1
Fine == UNCHANGED faults

dedup_token(batch) == batch

\* What ClickHouse does with a batch.
Apply(batch) ==
  LET new == dedup_token(batch) \notin tokens
  IN  /\ tokens' = tokens \union {dedup_token(batch)}
      /\ rows' = [r \in Records |-> IF new /\ r \in Range(batch) THEN rows[r] + 1 ELSE rows[r]]

\* An insert is done, refused, or done without the flusher hearing of it in time.
Insert(batch, ok) ==
  \/ ok /\ Fine /\ Apply(batch)
  \/ ~ok /\ Fault /\ UNCHANGED table
  \/ ~ok /\ Fault /\ Apply(batch)

\* clickhouse_ready: with setup, a missing schema is set up on the spot.
clickhouse_ready(setup, answer) ==
  \/ /\ ~backoff /\ (ready \/ setup) /\ answer
     /\ ready' = TRUE /\ Fine /\ UNCHANGED backoff
  \/ /\ ~backoff /\ ~ready /\ setup /\ ~answer
     /\ Fault /\ backoff' = TRUE /\ UNCHANGED ready
  \/ /\ backoff \/ (~ready /\ ~setup)
     /\ ~answer /\ Fine /\ UNCHANGED <<ready, backoff>>
-----------------------------------------------------------------------------
(* The request path.                                                       *)

\* TelemetrySink::record: never waits, counts what does not fit.
Record ==
  LET r == Head(fresh) IN
  /\ fresh # <<>>
  /\ fresh' = Tail(fresh)
  /\ IF Len(channel) < ChannelSize
     THEN channel' = Append(channel, r) /\ UNCHANGED dropped
     ELSE dropped' = dropped \union {r} /\ UNCHANGED channel
  /\ UNCHANGED <<buf, task, drain, ready, backoff, replay_backoff, active, log, table, faults,
                 crashes, lost, torn, owed>>
-----------------------------------------------------------------------------
(* The flusher.                                                            *)

\* flush: the batch goes to ClickHouse, or to the log while that is not ready.
Flush(records, setup) ==
  /\ buf' = <<>>
  /\ IF records = <<>> THEN Fine /\ UNCHANGED <<task, ready, backoff>>
     ELSE \E answer \in BOOLEAN :
            /\ clickhouse_ready(setup, answer)
            /\ task' = Busy(IF answer THEN "insert" ELSE "spill", records)

\* run: a record is received; a full buffer is flushed.
Receive ==
  LET records == Append(buf, Head(channel))
      full == Len(records) >= BatchMax
  IN  /\ task = Idle /\ drain # "asked"
      /\ channel # <<>>
      /\ channel' = Tail(channel)
      /\ IF full THEN Flush(records, TRUE)
         ELSE buf' = records /\ Fine /\ UNCHANGED <<task, ready, backoff>>
      /\ UNCHANGED <<drain, replay_backoff, active, log, table, crashes, history>>

\* run: the flush interval is over.
Tick ==
  /\ task = Idle /\ drain # "asked"
  /\ buf # <<>>
  /\ Flush(buf, TRUE)
  /\ UNCHANGED <<channel, drain, replay_backoff, active, log, table, crashes, history>>

\* shutdown asks for everything sent so far to be written.
Shutdown ==
  /\ drain = "no"
  /\ drain' = "asked"
  /\ owed' = InMemory
  /\ UNCHANGED <<channel, buf, task, ready, backoff, replay_backoff, active, log, table, faults,
                 crashes, fresh, dropped, lost, torn>>

\* run: a drain takes what is queued, a batch at a time, and flushes what is left;
\* without setting up the schema.
drainable_buffer_only(n) == <<>>
drainable(n) == SubSeq(channel, 1, n)

Drain ==
  LET n == Min({BatchMax - Len(buf), Len(channel)})
      records == buf \o drainable(n)
  IN  /\ task = Idle /\ drain = "asked"
      /\ channel' = SubSeq(channel, Len(drainable(n)) + 1, Len(channel))
      /\ Flush(records, FALSE)
      /\ drain' = IF Len(records) < BatchMax THEN "last" ELSE drain
      /\ UNCHANGED <<replay_backoff, active, log, table, crashes, history>>

\* flush: the insert; a batch that failed is spilled.
after_insert_anyway(ok) == Idle
after_insert(ok) == IF ok THEN Idle ELSE Busy("spill", task.batch)

InsertBatch ==
  /\ task.at = "insert"
  /\ \E ok \in BOOLEAN :
       /\ Insert(task.batch, ok)
       /\ backoff' = ~ok
       /\ task' = after_insert(ok)
  /\ UNCHANGED <<channel, buf, drain, ready, replay_backoff, active, log, crashes, history>>
-----------------------------------------------------------------------------
(* Wal::append.                                                            *)

LinesOf(batch) == Append(batch, Blank)
Size == Sum([i \in DOMAIN files |-> Len(files[i].lines)], Len(files))
Segments == Cardinality({files[i].id : i \in DOMAIN files} \ {Legacy})

\* What a write that fails may leave: whole lines and a piece of a record, or all of
\* it when only the sync failed.
Pieces(lines) ==
  {lines} \union UNION {{SubSeq(lines, 1, n)} \union (IF lines[n + 1] = Blank THEN {} ELSE {Append(SubSeq(lines, 1, n), Torn)}) :
           n \in 0..Len(lines) - 1}

\* The active file takes the lines if it is there and has room for them; its age is
\* the clock's.
Fits(lines) ==
  \E i \in DOMAIN files : files[i].id = active /\ Len(files[i].lines) + Len(lines) <= SegmentTarget

\* Lines after a torn one would make it a line of its own, which does not parse.
Joined(lines, more) ==
  IF lines # <<>> /\ more # <<>> /\ lines[Len(lines)] = Torn
  THEN SubSeq(lines, 1, Len(lines) - 1) \o <<Bad>> \o Tail(more)
  ELSE lines \o more

Written(lines, rolls) ==
  IF rolls THEN Append(files, [id |-> next, lines |-> lines, offset |-> 0])
  ELSE [i \in DOMAIN files |->
          IF files[i].id = active THEN [files[i] EXCEPT !.lines = Joined(@, lines)] ELSE files[i]]

\* Whether only part of a batch can be read from what was written of it.
Partly(piece, batch) ==
  /\ Range(piece) \intersect Records # {}
  /\ \E i \in DOMAIN batch : i \in DOMAIN piece => piece[i] # batch[i]

full(lines) == Size + Len(lines) > MaxSize
no_room(rolls) == rolls /\ Segments >= MaxSegments

\* A failed write closes its file: the next one starts another.
closed_to_none(rolls) == IF rolls THEN next ELSE active
closed(rolls) == 0

Rolls(lines) == {~Fits(lines), TRUE}

\* What is left of a write: piece, to the active file or to a new one.
Leaves(piece, rolls) ==
  /\ ~no_room(rolls)
  /\ files' = Written(piece, rolls)
  /\ next' = IF rolls THEN next + 1 ELSE next
  /\ torn' = IF Partly(piece, task.batch) THEN torn \union Range(task.batch) ELSE torn

appended(lines) ==
  \E rolls \in Rolls(lines) :
    /\ Leaves(lines, rolls)
    /\ active' = IF rolls THEN next ELSE active
    /\ Fine /\ UNCHANGED dropped

limit_reached(lines) ==
  /\ full(lines) \/ \E rolls \in Rolls(lines) : no_room(rolls)
  /\ active' = IF full(lines) THEN active ELSE 0
  /\ dropped' = dropped \union Range(task.batch)
  /\ Fine /\ UNCHANGED <<files, next, torn>>

write_failed(lines) ==
  \E rolls \in Rolls(lines), piece \in Pieces(lines) :
    /\ Leaves(piece, rolls)
    /\ active' = closed(rolls)
    /\ dropped' = dropped \union Range(task.batch)
    /\ Fault

\* The log could not be listed, or no file opened.
open_failed ==
  /\ active' \in {active, 0}
  /\ dropped' = dropped \union Range(task.batch)
  /\ Fault /\ UNCHANGED <<files, next, torn>>

append(lines) ==
  \/ limit_reached(lines)
  \/ open_failed
  \/ ~full(lines) /\ (appended(lines) \/ write_failed(lines))

\* write_wal: what the log refuses is counted.
Spill ==
  /\ task.at = "spill"
  /\ append(LinesOf(task.batch))
  /\ task' = Idle
  /\ UNCHANGED <<channel, buf, drain, ready, backoff, replay_backoff, table, crashes, fresh, lost,
                 owed>>
-----------------------------------------------------------------------------
(* Replay.                                                                 *)

\* read_batch: the records of a file from its offset on: [records, end], end the
\* offset after them.  It ends at a blank line once it has a record, before a line
\* that does not parse, and at BatchMax records.
read_on(lines, offset) ==
  LET at == {i \in offset + 1..Len(lines) : lines[i] \in Records}
      upto == Max({offset} \union at)
  IN  [records |-> SelectSeq(SubSeq(lines, offset + 1, upto), LAMBDA l : l \in Records),
       end |-> Len(lines)]
read_batch(lines, offset) ==
  LET first == Min({i \in offset + 1..Len(lines) : lines[i] # Blank} \union {Len(lines) + 1})
      stop == Min({i \in first..Len(lines) : lines[i] \notin Records}
                  \union {Len(lines) + 1, first + BatchMax})
      ends == stop <= Len(lines) /\ stop < first + BatchMax /\ lines[stop] # Bad
  IN  [records |-> SubSeq(lines, first, stop - 1), end |-> IF ends THEN stop ELSE stop - 1]

\* The line a read stumbles on, if that is the first it comes to.
bad_record(lines, offset) ==
  LET at == read_batch(lines, offset)
  IN  at.records = <<>> /\ at.end < Len(lines)

\* next_batch moves such lines aside; the first file has the batch.
past_none(f) == f
past_bad(f) ==
  LET good == {n \in f.offset..Len(f.lines) :
                 /\ ~bad_record(f.lines, n)
                 /\ \A i \in f.offset + 1..n : f.lines[i] \in {Bad, Blank}}
  IN  IF bad_record(f.lines, f.offset) THEN [f EXCEPT !.offset = Min(good)] ELSE f

\* replay_wal, up to the insert.  A read or a move that fails is tried again later.
Replay ==
  /\ task = Idle /\ drain # "asked"
  /\ ~replay_backoff
  /\ \/ /\ clickhouse_ready(TRUE, FALSE)
        /\ UNCHANGED <<task, replay_backoff, files>>
     \/ /\ clickhouse_ready(TRUE, TRUE)
        /\ IF files = <<>> THEN UNCHANGED <<task, files>>
           ELSE \E f \in {past_bad(files[1])} : \E read \in {read_batch(f.lines, f.offset)} :
                  /\ files' = [files EXCEPT ![1] = f]
                  /\ task' = [at |-> IF read.records = <<>> THEN "commit" ELSE "replay",
                              batch |-> read.records, end |-> read.end]
        /\ UNCHANGED replay_backoff
     \/ /\ ~backoff /\ ready' = TRUE
        /\ Fault /\ replay_backoff' = TRUE
        /\ UNCHANGED <<task, backoff, files>>
  /\ UNCHANGED <<channel, buf, drain, active, next, table, crashes, history>>

InsertReplayed ==
  /\ task.at = "replay"
  /\ \E ok \in BOOLEAN :
       /\ Insert(task.batch, ok)
       /\ backoff' = IF ok THEN backoff ELSE TRUE
       /\ task' = IF ok THEN [task EXCEPT !.at = "commit"] ELSE Idle
  /\ UNCHANGED <<channel, buf, drain, ready, replay_backoff, active, log, crashes, history>>

\* commit: a file read to its end goes, another keeps how far it was read.  An error
\* may come after that: a checkpoint that stays behind is never read again.
committed_file(f, end) == <<>>
committed(f, end) == IF end = Len(f.lines) THEN <<>> ELSE <<[f EXCEPT !.offset = end]>>

Commit ==
  /\ task.at = "commit"
  /\ \/ /\ files' = committed(files[1], task.end) \o Tail(files)
        /\ backoff' = FALSE /\ replay_backoff' = FALSE
        /\ Fine
     \/ /\ Fault
        /\ files' \in {files, committed(files[1], task.end) \o Tail(files)}
        /\ replay_backoff' = TRUE
        /\ UNCHANGED backoff
  /\ task' = Idle
  /\ UNCHANGED <<channel, buf, drain, ready, active, next, table, crashes, history>>

BackoffOver ==
  /\ backoff /\ backoff' = FALSE
  /\ UNCHANGED <<channel, buf, task, drain, ready, replay_backoff, log, active, table, faults,
                 crashes, history>>

ReplayBackoffOver ==
  /\ replay_backoff /\ replay_backoff' = FALSE
  /\ UNCHANGED <<channel, buf, task, drain, ready, backoff, log, active, table, faults, crashes,
                 history>>
-----------------------------------------------------------------------------
(* The process ends, after its shutdown or in the middle of anything, and  *)
(* another starts.  A write it was in the middle of is left in pieces.     *)

cut_off(lines) ==
  /\ task.at = "spill" /\ ~full(lines)
  /\ \E rolls \in Rolls(lines), piece \in Pieces(lines) : Leaves(piece, rolls)

Ends ==
  /\ crashes > 0
  /\ crashes' = crashes - 1
  /\ cut_off(LinesOf(task.batch)) \/ UNCHANGED <<files, next, torn>>
  /\ channel' = <<>> /\ buf' = <<>> /\ task' = Idle /\ drain' = "no"
  /\ backoff' = FALSE /\ replay_backoff' = FALSE /\ active' = 0
  /\ ready' \in BOOLEAN
  /\ lost' = lost \union (InMemory \ OnDisk')
  /\ owed' = {}
  /\ UNCHANGED <<table, faults, fresh, dropped>>
-----------------------------------------------------------------------------
Init ==
  /\ channel = <<>> /\ buf = <<>> /\ task = Idle /\ drain = "no"
  /\ ready \in BOOLEAN /\ backoff = FALSE /\ replay_backoff = FALSE
  /\ files = IF Left = <<>> THEN <<>> ELSE <<[id |-> Legacy, lines |-> Left, offset |-> 0]>>
  /\ active = 0 /\ next = Legacy + 1
  /\ rows = [r \in Records |-> 0] /\ tokens = {}
  /\ faults = MaxFaults /\ crashes = MaxCrashes
  /\ fresh = Arrivals
  /\ dropped = {} /\ lost = {} /\ torn = {} /\ owed = {}

Next ==
  \/ Record \/ Receive \/ Tick \/ Shutdown \/ Drain
  \/ InsertBatch \/ Spill \/ Replay \/ InsertReplayed \/ Commit
  \/ BackoffOver \/ ReplayBackoffOver \/ Ends

Spec == Init /\ [][Next]_vars

\* The task is always scheduled, its timers tick, and tokio's select picks among the
\* branches that are ready at random: none waits for ever.
FairSpec ==
  /\ Spec
  /\ WF_vars(Receive) /\ WF_vars(Tick) /\ WF_vars(Drain)
  /\ WF_vars(InsertBatch) /\ WF_vars(Spill)
  /\ WF_vars(Replay) /\ WF_vars(InsertReplayed) /\ WF_vars(Commit)
  /\ WF_vars(BackoffOver) /\ WF_vars(ReplayBackoffOver)
-----------------------------------------------------------------------------
(* Properties.                                                             *)

\* The log can always be read: files in order of their making, a checkpoint within
\* its file (so none is set aside for an invalid one), a torn line only as the last,
\* and no line that does not parse but those left by another version.
FilesWellFormed ==
  /\ \A i, j \in DOMAIN files : i < j => files[i].id < files[j].id
  /\ \A i \in DOMAIN files :
       LET f == files[i]
       IN  /\ f.offset \in 0..Len(f.lines)
           /\ \A n \in DOMAIN f.lines :
                /\ f.lines[n] = Torn => n = Len(f.lines) /\ f.id # active
                /\ f.lines[n] = Bad => f.id = Legacy
  /\ Size <= Max({MaxSize, Len(Left)}) /\ Segments <= MaxSegments
  /\ task.at \in {"replay", "commit"} => files # <<>> /\ task.end <= Len(files[1].lines)

\* No record goes without a trace: it is on its way, in the log or in the table, it
\* was counted as dropped, or it was in the memory of a process that ended.
RecordsAccounted ==
  \A r \in Records \ Range(fresh) :
    r \in InMemory \union OnDisk \union dropped \union lost \/ rows[r] > 0

\* A record is in the table once, whatever timed out, was retried or replayed: the
\* batch replayed is the batch inserted, so its token is.  Not so for a batch that
\* was spilled in part.
InsertedOnce == \A r \in Records \ torn : rows[r] <= 1

\* What a shutdown found in memory is out of it once the shutdown is acknowledged:
\* inserted, spilled to the log, or refused by the log and counted as dropped.
DrainLeavesNothing == drain = "last" /\ task = Idle => owed \intersect InMemory = {}

\* A record leaves the log only when it is in the table: across failures to insert or
\* to commit, and crashes between the two.
SpillKept == [][\A r \in OnDisk : r \notin OnDisk' => rows[r] > 0]_vars

\* Once no more records come, the log is replayed to its end and its files go, past
\* lines that cannot be replayed and whatever failed on the way.
SpillReplayed == <>[](files = <<>>)
=============================================================================
