---------------------------- MODULE SiemOutputs ----------------------------
(***************************************************************************)
(* What events are written to: a syslog output over a stream               *)
(* (src/src/siem/syslog.mjs), an Elasticsearch output                      *)
(* (src/src/siem/elasticsearch.mjs), which siemHook() of                   *)
(* src/src/index.mjs feeds, and the JSONL audit log                        *)
(* (src/src/siem/file.mjs).                                                *)
(*                                                                         *)
(* The syslog output hands frames to its socket, or keeps them while it    *)
(* dials; the next write dials again after a connection was lost.  The     *)
(* Elasticsearch output collects events and ships batches one after the    *)
(* other, on a timer or when a batch is full; a batch that fails is given  *)
(* up.                                                                     *)
(*                                                                         *)
(* The audit log collects lines; a chain of tasks takes them to the file,  *)
(* one at a time.  A task that finds the file full rotates it, and the     *)
(* rotation first writes what has been collected meanwhile: the two call   *)
(* each other, so a rotation can be left standing while another one runs.  *)
(* Every line is as long as every other, and the archive of a rotation is  *)
(* named after the second in which it happens.                             *)
(***************************************************************************)
EXTENDS Naturals, Sequences, FiniteSets, SequencesExt

-----------------------------------------------------------------------------
(* The syslog and the Elasticsearch output *)

CONSTANTS MaxHooked,   \* bound: how many events there are
          MaxPending,  \* max_buffer of both outputs
          BatchSize    \* batch_size

ASSUME SiemAssumption == {MaxHooked, MaxPending, BatchSize} \subseteq Nat \ {0}

VARIABLES hooked,   \* how many events siemHook() has seen; event n is the n-th
          link,     \* the socket: "down", "dialling", "up"
          pending,  \* frames that wait for it
          handed,   \* frames that were given to a socket, in order
          ended,    \* syslog close(): "no", "flushing", "done"
          collected,\* the buffer of the Elasticsearch output
          ships,    \* shipments on its chain that have not begun
          batch,    \* the events of the one under way
          stopped   \* Elasticsearch close(): "no", "shipping", "done"

siemVars == <<hooked, link, pending, handed, ended, collected, ships, batch, stopped>>
syslogVars == <<link, pending, handed, ended>>
bulkVars == <<collected, ships, batch, stopped>>

SiemInit ==
  /\ hooked = 0
  /\ link = "down"
  /\ pending = <<>>
  /\ handed = <<>>
  /\ ended = "no"
  /\ collected = <<>>
  /\ ships = 0
  /\ batch = <<>>
  /\ stopped = "no"

-----------------------------------------------------------------------------
(* syslog.mjs *)

\* enqueue(): the oldest frame makes room.
Enqueued(frame) ==
  Append(IF Len(pending) >= MaxPending THEN Tail(pending) ELSE pending, frame)

SyslogWrite(frame) ==
  CASE ended # "no" -> UNCHANGED syslogVars
    [] ended = "no" /\ link = "up" -> handed' = Append(handed, frame) /\ UNCHANGED <<link, pending, ended>>
    [] OTHER -> link' = "dialling" /\ pending' = Enqueued(frame) /\ UNCHANGED <<handed, ended>>

\* mutant: frames that waited stay where they are.
LeftPending == UNCHANGED <<pending, handed>>
\* onConnect(): what waited goes first.
PendingGoes == pending' = <<>> /\ handed' = handed \o pending

Connects ==
  /\ link = "dialling"
  /\ link' = "up"
  /\ PendingGoes
  /\ UNCHANGED <<hooked, ended>>
  /\ UNCHANGED bulkVars

\* `close`, also of a connection that never was: nobody dials again yet.
LinkLost ==
  /\ link # "down"
  /\ link' = "down"
  /\ UNCHANGED <<hooked, pending, handed, ended>>
  /\ UNCHANGED bulkVars

\* flush() of a working output dials once more for what waits.
SyslogFlush ==
  /\ ended = "no"
  /\ link = "down"
  /\ pending # <<>>
  /\ link' = "dialling"
  /\ UNCHANGED <<hooked, pending, handed, ended>>
  /\ UNCHANGED bulkVars

\* close(): a closed output neither dials nor waits, so its flush() is over at
\* once; what ends is the socket it has, if any.
SyslogClose ==
  /\ ended = "no"
  /\ ended' = IF link = "down" THEN "done" ELSE "flushing"
  /\ UNCHANGED <<hooked, link, pending, handed>>
  /\ UNCHANGED bulkVars

SyslogEnded ==
  /\ ended = "flushing"
  /\ link # "dialling"
  /\ ended' = "done"
  /\ link' = "down"
  /\ UNCHANGED <<hooked, pending, handed>>
  /\ UNCHANGED bulkVars

-----------------------------------------------------------------------------
(* elasticsearch.mjs *)

\* write(): the oldest event makes room; a full batch is scheduled.
BulkWrite(event) ==
  IF stopped # "no"
  THEN UNCHANGED bulkVars
  ELSE /\ collected' = Append(IF Len(collected) >= MaxPending THEN Tail(collected) ELSE collected, event)
       /\ ships' = IF Len(collected') >= BatchSize THEN ships + 1 ELSE ships
       /\ UNCHANGED <<batch, stopped>>

\* The interval, or a caller of flush(): one more shipment, unless one waits.
FlushDue ==
  /\ stopped = "no"
  /\ collected # <<>>
  /\ ships = 0
  /\ ships' = 1
  /\ UNCHANGED <<hooked, collected, batch, stopped>>
  /\ UNCHANGED syslogVars

ShipStarts ==
  /\ ships > 0
  /\ batch = <<>>
  /\ ships' = ships - 1
  /\ batch' = SubSeq(collected, 1, IF Len(collected) < BatchSize THEN Len(collected) ELSE BatchSize)
  /\ collected' = SubSeq(collected, Len(batch') + 1, Len(collected))
  /\ UNCHANGED <<hooked, stopped>>
  /\ UNCHANGED syslogVars

\* Accepted, refused, failed or timed out: the batch is not tried again.
ShipEnds ==
  /\ batch # <<>>
  /\ batch' = <<>>
  /\ UNCHANGED <<hooked, collected, ships, stopped>>
  /\ UNCHANGED syslogVars

\* close() goes on until the buffer is empty.
MoreToShip == collected # <<>>

BulkClose ==
  /\ stopped = "no"
  /\ stopped' = "shipping"
  /\ UNCHANGED <<hooked, collected, ships, batch>>
  /\ UNCHANGED syslogVars

\* The chain is idle: another shipment, or the end.
CloseGoesOn ==
  /\ stopped = "shipping"
  /\ ships = 0
  /\ batch = <<>>
  /\ \/ MoreToShip /\ ships' = 1 /\ UNCHANGED stopped
     \/ ~ MoreToShip /\ stopped' = "done" /\ UNCHANGED ships
  /\ UNCHANGED <<hooked, collected, batch>>
  /\ UNCHANGED syslogVars

-----------------------------------------------------------------------------
\* siemHook(): every output gets the event, whatever the others do.
SiemHook ==
  /\ hooked < MaxHooked
  /\ hooked' = hooked + 1
  /\ SyslogWrite(hooked + 1)
  /\ BulkWrite(hooked + 1)

SiemNext ==
  \/ SiemHook
  \/ Connects
  \/ LinkLost
  \/ SyslogFlush
  \/ SyslogClose
  \/ SyslogEnded
  \/ FlushDue
  \/ ShipStarts
  \/ ShipEnds
  \/ BulkClose
  \/ CloseGoesOn

SiemSpec == SiemInit /\ [][SiemNext]_siemVars

-----------------------------------------------------------------------------

Increasing(s) == \A i \in 1 .. Len(s) - 1 : s[i] < s[i + 1]

\* Whatever the connection does, the collector's frames are in the order of the
\* events and none of them is sent twice: a frame that waited goes before every
\* later one, and one handed to a socket is never kept as well.  Nor does a bulk
\* request that is under way hold an event that waits for the next one.
FramesInOrder == Increasing(handed \o pending) /\ Increasing(batch \o collected)

-----------------------------------------------------------------------------
(* createFileOutput() *)

CONSTANTS MaxLines,    \* bound: how many lines are ever written
          RotateLines, \* rotate_mb, in lines
          KeepFiles,   \* keep_files
          FlushBatch,  \* flush_batch
          MaxSeconds   \* bound: the seconds of the clock

ASSUME FileAssumption ==
  {MaxLines, RotateLines, KeepFiles, FlushBatch, MaxSeconds} \subseteq Nat \ {0}

VARIABLES written,  \* how many lines write() has accepted; line n is the n-th
          buffer,   \* _buffer
          chain,    \* _chain: the tasks that wait, a "write" before a "close"
          task,     \* the running one: its next step, whether it closes, and how
                    \* many rotations stand above it
          handle,   \* _fd is open, and _fdSize
          active,   \* the lines of the active file
          archives, \* archives[s]: the file named after second s, or Missing
          second,   \* the clock
          shut      \* _closed

fileVars == <<written, buffer, chain, task, handle, active, archives, second, shut>>

Seconds == 1 .. MaxSeconds
Missing == <<0>>
NoTask == [step |-> "none", closes |-> FALSE, standing |-> 0]

FileInit ==
  /\ written = 0
  /\ buffer = <<>>
  /\ chain = {}
  /\ task = NoTask
  /\ handle = [open |-> FALSE, size |-> 0]
  /\ active = <<>>
  /\ archives = [s \in Seconds |-> Missing]
  /\ second = 1
  /\ shut = FALSE

-----------------------------------------------------------------------------
(* write(), the timer and flush(), close() *)

\* A full batch is scheduled.  More than one waiting task is no different from
\* the timer's next one, and not counted.
WriteLine ==
  /\ ~ shut
  /\ written < MaxLines
  /\ written' = written + 1
  /\ buffer' = Append(buffer, written + 1)
  /\ chain' = IF Len(buffer) + 1 >= FlushBatch THEN chain \cup {"write"} ELSE chain
  /\ UNCHANGED <<task, handle, active, archives, second, shut>>

FlushBuffer ==
  /\ ~ shut
  /\ buffer # <<>>
  /\ "write" \notin chain
  /\ chain' = chain \cup {"write"}
  /\ UNCHANGED <<written, buffer, task, handle, active, archives, second, shut>>

CloseOutput ==
  /\ ~ shut
  /\ shut' = TRUE
  /\ chain' = chain \cup {"close"}
  /\ UNCHANGED <<written, buffer, task, handle, active, archives, second>>

-----------------------------------------------------------------------------
(* _writeBuffer() and _rotate(), from one await to the next *)

Step(s) == task' = [task EXCEPT !.step = s]

\* The innermost _writeBuffer() returns: to the rotation that called it, to the
\* end of the close task, or to the chain.
Return ==
  task' = CASE task.standing > 0 -> [task EXCEPT !.step = "close", !.standing = @ - 1]
            [] task.standing = 0 /\ task.closes -> [task EXCEPT !.step = "finish"]
            [] OTHER -> NoTask

TaskStarts ==
  /\ task = NoTask
  /\ chain # {}
  /\ LET next == IF "write" \in chain THEN "write" ELSE "close" IN
       /\ chain' = chain \ {next}
       /\ task' = IF buffer # <<>>
                  THEN [step |-> "open", closes |-> next = "close", standing |-> 0]
                  ELSE IF next = "close" THEN [NoTask EXCEPT !.step = "finish"] ELSE NoTask
  /\ UNCHANGED <<written, buffer, handle, active, archives, second, shut>>

\* _openFile().  When it fails the lines stay and the whole task is over.
OpenFile ==
  /\ task.step = "open"
  /\ \/ /\ handle' = IF handle.open THEN handle ELSE [open |-> TRUE, size |-> Len(active)]
        /\ Step("write")
     \/ /\ ~ handle.open
        /\ UNCHANGED handle
        /\ task' = NoTask
  /\ UNCHANGED <<written, buffer, chain, active, archives, second, shut>>

\* splice(): the lines leave the buffer before they are written.
LeftInBuffer == <<>>

WriteChunk ==
  /\ task.step = "write"
  /\ buffer' = LeftInBuffer
  /\ \/ /\ active' = active \o buffer
        /\ handle' = [handle EXCEPT !.size = @ + Len(buffer)]
        /\ Step("written")
     \/ task' = NoTask /\ UNCHANGED <<active, handle>>
  /\ UNCHANGED <<written, chain, archives, second, shut>>

\* Below the threshold _writeBuffer() is done; from there on it rotates, and
\* what was collected during the write is written first.
ChunkWritten ==
  /\ task.step = "written"
  /\ \/ handle.size < RotateLines /\ Return
     \/ /\ handle.size >= RotateLines
        /\ buffer # <<>>
        /\ task' = [task EXCEPT !.step = "write", !.standing = @ + 1]
     \/ handle.size >= RotateLines /\ buffer = <<>> /\ Step("close")
  /\ UNCHANGED <<written, buffer, chain, handle, active, archives, second, shut>>

CloseFile ==
  /\ task.step \in {"close", "finish"}
  /\ handle' = [handle EXCEPT !.open = FALSE]
  /\ IF task.step = "close" THEN Step("rename") ELSE task' = NoTask
  /\ UNCHANGED <<written, buffer, chain, active, archives, second, shut>>

\* The archives that are over the limit, oldest first.
Excess(files) ==
  LET named == {s \in Seconds : files[s] # Missing}
  IN {s \in named : Cardinality({t \in named : t > s}) >= KeepFiles}

\* The archive is named after the second: rename() onto an archive of the same
\* second replaces it.  A rename or a deletion that fails is only logged.
Rename ==
  /\ task.step = "rename"
  /\ \E files \in {archives, [archives EXCEPT ![second] = active]} :
     \E deleted \in {{}, Excess(files)} :
       /\ archives' = [s \in Seconds |-> IF s \in deleted THEN Missing ELSE files[s]]
       /\ active' = IF files = archives THEN active ELSE <<>>
  /\ Step("reopen")
  /\ UNCHANGED <<written, buffer, chain, handle, second, shut>>

\* The rotation ends, and with it the _writeBuffer() that began it.
Reopen ==
  /\ task.step = "reopen"
  /\ \/ handle' = [open |-> TRUE, size |-> Len(active)] /\ Return
     \/ handle' = [open |-> FALSE, size |-> 0] /\ task' = NoTask
  /\ UNCHANGED <<written, buffer, chain, active, archives, second, shut>>

SecondPasses ==
  /\ second < MaxSeconds
  /\ second' = second + 1
  /\ UNCHANGED <<written, buffer, chain, task, handle, active, archives, shut>>

FileNext ==
  \/ WriteLine
  \/ FlushBuffer
  \/ CloseOutput
  \/ TaskStarts
  \/ OpenFile
  \/ WriteChunk
  \/ ChunkWritten
  \/ CloseFile
  \/ Rename
  \/ Reopen
  \/ SecondPasses

FileSpec == FileInit /\ [][FileNext]_fileVars

-----------------------------------------------------------------------------

OnDisk == FlattenSeq([s \in Seconds |-> IF archives[s] = Missing THEN <<>> ELSE archives[s]]) \o active

\* The audit trail reads in the order of the events and has none of them twice:
\* archive after archive, then the active file, then what is still collected,
\* through rotations within rotations and failures of any step.
TrailInOrder == Increasing(OnDisk \o buffer)

\* Whoever reads what an output of the events has written reads them in the order in
\* which they happened and none twice: in the file and its archives, at the syslog
\* collector, and in the bulk requests.
EventsInOrder == TrailInOrder /\ FramesInOrder

=============================================================================
