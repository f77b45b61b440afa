------------------------------ MODULE LocalQueue ------------------------------
(***************************************************************************)
(* client_core/sender/local_queue.py: the bounded queue in which a client  *)
(* keeps the payloads it could not send, in memory and, when a path is     *)
(* given, in a JSONL file that a restarted process reads back.             *)
(*                                                                         *)
(* Every public operation runs under the queue's RLock, so it is one       *)
(* action; the loop of _enforce_max_bytes_locked, which rewrites the file  *)
(* once per evicted payload, is one action per iteration, so that the      *)
(* process may die between two of them.  A line of the file has unit size. *)
(***************************************************************************)
EXTENDS Filtering, Naturals, Sequences, FiniteSets

CONSTANTS
    Payload,     (* what the client may enqueue                              *)
    MaxSize,     (* max_size: payloads kept in memory                        *)
    MaxBytes,    (* max_bytes, in lines of the file                          *)
    Persistent,  (* queue_path is not None                                   *)
    BadText,     (* a complete line that is text but not JSON                *)
    BadChar,     (* a complete line cut inside a character: not UTF-8        *)
    MaxFaults    (* bound: I/O errors in one behaviour                       *)

ASSUME QueueAssumption ==
    /\ MaxSize \in Nat \ {0}
    /\ MaxBytes \in Nat \ {0}
    /\ MaxFaults \in Nat
    /\ Persistent \in BOOLEAN
    /\ BadText \notin Payload
    /\ BadChar \notin Payload
    /\ BadText # BadChar

VARIABLES
    proc,         (* the process that owns the queue                         *)
    buf,          (* _buf, oldest first                                      *)
    disk,         (* the file: complete lines and an unterminated tail       *)
    pos,          (* lines read so far by _load_from_disk                    *)
    enforcing,    (* the lock is held by the loop of _enforce_max_bytes      *)
    dropped,      (* _dropped_count                                          *)
    skipped,      (* _corrupt_skipped_count                                  *)
    writeFailed,  (* _disk_write_failed_count                                *)
    readFailed,   (* history: this process read only a part of the file      *)
    evicted,      (* history: every payload the queue ever gave up           *)
    faults        (* history: I/O errors so far, over all processes          *)

queueVars == <<proc, buf, disk, pos, enforcing, dropped, skipped, writeFailed,
               readFailed, evicted, faults>>
-----------------------------------------------------------------------------
Line == Payload \cup {BadText, BadChar}
Tails == {"none", "text", "char"}
File == [lines : Seq(Line), tail : Tails]

(* The file that holds exactly the payloads of b.                          *)
Image(b) == [lines |-> b, tail |-> "none"]

Size(file) == Len(file.lines) + (IF file.tail = "none" THEN 0 ELSE 1)

(* A write cut short (disk full, process killed) leaves a piece of the     *)
(* line, which may end inside a multi-byte character.                      *)
Torn(file) ==
    {[file EXCEPT !.tail = t] :
        t \in IF file.tail = "char" THEN {"char"} ELSE {"text", "char"}}

(* open("a"): the new line is glued to an unterminated one before it.      *)
Joined(file, p) ==
    Image(Append(file.lines, CASE file.tail = "none" -> p
                               [] file.tail = "text" -> BadText
                               [] file.tail = "char" -> BadChar))

Elements(s) == {s[i] : i \in DOMAIN s}
Lines(file) == Elements(file.lines)
OnDisk == Lines(disk) \cap Payload

(* deque(maxlen=max_size).append and the count kept beside it.             *)
Push(p) ==
    IF Len(buf) >= MaxSize
    THEN /\ buf' = Append(Tail(buf), p)
         /\ dropped' = dropped + 1
         /\ evicted' = evicted \cup {Head(buf)}
    ELSE /\ buf' = Append(buf, p)
         /\ UNCHANGED <<dropped, evicted>>
-----------------------------------------------------------------------------
(* Writing the file.  An OSError is counted and otherwise ignored.         *)

Fault == /\ faults < MaxFaults
         /\ faults' = faults + 1
         /\ writeFailed' = writeFailed + 1

NoFault == UNCHANGED <<faults, writeFailed>>

AppendLine(p) ==
    \/ disk' = Joined(disk, p) /\ NoFault
    \/ disk' \in {disk} \cup Torn(disk) /\ Fault

(* The temporary file replaces the old one, or the old one stays.          *)
CompactDisk(b) ==
    \/ disk' = Image(b) /\ NoFault
    \/ disk' = disk /\ Fault
-----------------------------------------------------------------------------
(* The operations of a live process.                                       *)

Ready == proc = "up" /\ ~enforcing

(* A faulty put: the line is appended even when the oldest one must go.    *)
PutNeverCompacts(p) ==
    /\ Ready
    /\ Push(p)
    /\ IF Persistent THEN AppendLine(p) ELSE UNCHANGED disk /\ NoFault
    /\ enforcing' = Persistent
    /\ UNCHANGED <<proc, pos, skipped, readFailed>>

(* A faulty put: the payload is kept in memory only if it was written.     *)
PutNeedsFile(p) ==
    /\ Ready
    /\ AppendLine(p)
    /\ IF faults' = faults
       THEN Push(p)
       ELSE UNCHANGED <<buf, dropped, evicted>>
    /\ enforcing' = Persistent
    /\ UNCHANGED <<proc, pos, skipped, readFailed>>

(* Appends a line, or rewrites the file when the oldest line must go.      *)
Put(p) ==
    /\ Ready
    /\ Push(p)
    /\ \/ ~Persistent /\ UNCHANGED disk /\ NoFault
       \/ Persistent /\ Len(buf) >= MaxSize /\ CompactDisk(buf')
       \/ Persistent /\ Len(buf) < MaxSize /\ AppendLine(p)
    /\ enforcing' = Persistent
    /\ UNCHANGED <<proc, pos, skipped, readFailed>>

(* One iteration of the loop that shrinks the file to max_bytes: the size  *)
(* is read back from the file, so it stays too large if compaction failed. *)
EnforceDrop ==
    /\ enforcing
    /\ Size(disk) > MaxBytes
    /\ buf # <<>>
    /\ buf' = Tail(buf)
    /\ dropped' = dropped + 1
    /\ evicted' = evicted \cup {Head(buf)}
    /\ CompactDisk(buf')
    /\ UNCHANGED <<proc, pos, enforcing, skipped, readFailed>>

EnforceDone ==
    /\ enforcing
    /\ Size(disk) <= MaxBytes \/ buf = <<>>
    /\ enforcing' = FALSE
    /\ UNCHANGED <<proc, buf, disk, pos, dropped, skipped, writeFailed, readFailed,
                   evicted, faults>>

EnforceMaxBytes == EnforceDrop \/ EnforceDone

(* A faulty pop: the line stays in the file.                               *)
PopKeepsFile ==
    /\ Ready
    /\ buf # <<>>
    /\ buf' = Tail(buf)
    /\ UNCHANGED <<proc, disk, pos, enforcing, dropped, skipped, writeFailed,
                   readFailed, evicted, faults>>

Pop ==
    /\ Ready
    /\ buf # <<>>
    /\ buf' = Tail(buf)
    /\ IF Persistent THEN CompactDisk(buf') ELSE UNCHANGED disk /\ NoFault
    /\ UNCHANGED <<proc, pos, enforcing, dropped, skipped, readFailed, evicted>>

Drain ==
    /\ Ready
    /\ buf' = <<>>
    /\ IF Persistent THEN CompactDisk(<<>>) ELSE UNCHANGED disk /\ NoFault
    /\ UNCHANGED <<proc, pos, enforcing, dropped, skipped, readFailed, evicted>>
-----------------------------------------------------------------------------
(* The end of a process, and the constructor of the next one.              *)

Forget ==
    /\ buf' = <<>>
    /\ pos' = 0
    /\ enforcing' = FALSE
    /\ dropped' = 0
    /\ skipped' = 0
    /\ writeFailed' = 0
    /\ readFailed' = FALSE

(* The process dies between two operations or two iterations.              *)
Crash ==
    /\ proc \in {"up", "loading"}
    /\ proc' = "down"
    /\ Forget
    /\ UNCHANGED <<disk, evicted, faults>>

(* The process dies while put appends its line to the file.                *)
CrashInAppend ==
    /\ Ready
    /\ Persistent
    /\ Len(buf) < MaxSize
    /\ proc' = "down"
    /\ disk' \in Torn(disk)
    /\ Forget
    /\ UNCHANGED <<evicted, faults>>

Boot ==
    /\ proc \in {"down", "bootFailed"}
    /\ proc' = IF Persistent THEN "loading" ELSE "up"
    /\ UNCHANGED <<buf, disk, pos, enforcing, dropped, skipped, writeFailed,
                   readFailed, evicted, faults>>

(* A faulty load: a full buffer takes no more, so the newest are lost.     *)
LoadLineKeepsOldest ==
    /\ proc = "loading"
    /\ pos < Len(disk.lines)
    /\ LET line == disk.lines[pos + 1]
       IN  IF line \in Payload /\ Len(buf) < MaxSize
           THEN Push(line)
           ELSE line # BadChar /\ UNCHANGED <<buf, dropped, evicted>>
    /\ pos' = pos + 1
    /\ UNCHANGED <<proc, disk, enforcing, skipped, writeFailed, readFailed, faults>>

(* _load_from_disk reads one line: a payload is kept, a damaged line that  *)
(* is still text is skipped and counted.                                   *)
LoadLine ==
    /\ proc = "loading"
    /\ pos < Len(disk.lines)
    /\ LET line == disk.lines[pos + 1]
       IN  \/ line \in Payload /\ Push(line) /\ UNCHANGED skipped
          \/ /\ line = BadText
             /\ skipped' = skipped + 1
             /\ UNCHANGED <<buf, dropped, evicted>>
    /\ pos' = pos + 1
    /\ UNCHANGED <<proc, disk, enforcing, writeFailed, readFailed, faults>>

(* A faulty load: it forgets to rewind the file it rewrote.                *)
LoadEndKeepsPos ==
    /\ proc = "loading"
    /\ pos = Len(disk.lines)
    /\ disk.tail # "char"
    /\ CompactDisk(buf)
    /\ proc' = "up"
    /\ UNCHANGED <<buf, pos, enforcing, dropped, skipped, readFailed, evicted>>

(* The end of the file: it is rewritten from memory.                       *)
LoadEnd ==
    /\ proc = "loading"
    /\ pos = Len(disk.lines)
    /\ disk.tail # "char"
    /\ skipped' = skipped + (IF disk.tail = "text" THEN 1 ELSE 0)
    /\ CompactDisk(buf)
    /\ proc' = "up"
    /\ pos' = 0
    /\ UNCHANGED <<buf, enforcing, dropped, readFailed, evicted>>

(* An OSError while reading: what was read is kept, the file is left as it *)
(* is, and only the log tells.                                             *)
LoadInterrupted ==
    /\ proc = "loading"
    /\ faults < MaxFaults
    /\ faults' = faults + 1
    /\ readFailed' = TRUE
    /\ proc' = "up"
    /\ pos' = 0
    /\ UNCHANGED <<buf, disk, enforcing, dropped, skipped, writeFailed, evicted>>

(* open(..., encoding="utf-8") decodes in strict mode, in "for raw in f",  *)
(* outside the try that skips damaged lines; UnicodeDecodeError is no      *)
(* OSError, so __init__ raises.                                            *)
LoadRaises ==
    /\ proc = "loading"
    /\ IF pos < Len(disk.lines)
       THEN disk.lines[pos + 1] = BadChar
       ELSE disk.tail = "char"
    /\ proc' = "bootFailed"
    /\ Forget
    /\ UNCHANGED <<disk, evicted, faults>>

Load == LoadLine \/ LoadEnd \/ LoadInterrupted \/ LoadRaises
-----------------------------------------------------------------------------
QueueInit ==
    /\ proc = "up"
    /\ buf = <<>>
    /\ disk = Image(<<>>)
    /\ pos = 0
    /\ enforcing = FALSE
    /\ dropped = 0
    /\ skipped = 0
    /\ writeFailed = 0
    /\ readFailed = FALSE
    /\ evicted = {}
    /\ faults = 0

QueueNext ==
    \/ \E p \in Payload : Put(p)
    \/ EnforceMaxBytes
    \/ Pop
    \/ Drain
    \/ Crash
    \/ CrashInAppend
    \/ Boot
    \/ Load

QueueSpec == QueueInit /\ [][QueueNext]_queueVars
-----------------------------------------------------------------------------
QueueTypeOK ==
    /\ proc \in {"up", "down", "loading", "bootFailed"}
    /\ buf \in Seq(Payload)
    /\ disk \in File
    /\ pos \in 0 .. Len(disk.lines)
    /\ enforcing \in BOOLEAN
    /\ dropped \in Nat
    /\ skipped \in Nat
    /\ writeFailed \in Nat
    /\ readFailed \in BOOLEAN
    /\ evicted \subseteq Payload
    /\ faults \in 0 .. MaxFaults

(* The memory bound of deque(maxlen=max_size) also holds for a queue that  *)
(* was filled from a file longer than max_size or still being shrunk.      *)
Bounded == Len(buf) <= MaxSize

(* As long as no disk error was counted (and the file was read to its      *)
(* end), the file is exactly the buffer: what a crash now would leave      *)
(* behind is every payload still unsent, in order and once.  This is what  *)
(* _append_line, the compactions and the load must keep up together.       *)
DiskMirrorsBuffer ==
    (Persistent /\ proc = "up" /\ writeFailed = 0 /\ ~readFailed)
        => disk = Image(buf)

(* The newest max_size payloads of a file, damaged lines left out.         *)
NewestOf(good) ==
    IF Len(good) <= MaxSize THEN good ELSE SubSeq(good, Len(good) - MaxSize + 1, Len(good))
Newest(file) == NewestOf(Filtered(file.lines, Payload))

(* A start that reads the file to its end leaves in memory the newest      *)
(* max_size payloads of it, in order, wherever the damaged lines stand; as *)
(* for a loop that reads line by line into a bounded deque.                *)
LoadKeepsNewest ==
    [][(proc = "loading" /\ proc' = "up" /\ ~readFailed') => buf' = Newest(disk)]_queueVars

(* With a working disk, the queue is a bounded sequence that outlives its  *)
(* process when it has a file: what is unsent is the memory of a live      *)
(* process, and what the next one reads from the file of a dead one.       *)
Unsent == IF proc = "up" THEN buf ELSE Newest(disk)

Promised == INSTANCE DurableQueue
    WITH Durable <- Persistent, queue <- Unsent, up <- (proc = "up")

KeepsQueue == Promised!Spec
=============================================================================
