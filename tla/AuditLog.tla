------------------------------ MODULE AuditLog ------------------------------
(***************************************************************************)
(* src/orchestrator/audit.py: several processes append to one primary sink *)
(* under flock, each with its own cache of the head, and write the same    *)
(* line to a mirror after they have let go of the lock.  A reader compares *)
(* the sinks the way check_mirror does, one file after the other.          *)
(*                                                                         *)
(* Next is an action per step another process can come between.  A write   *)
(* that raises may have written a part of its line, and closing the file,  *)
(* which the with statement does after the lock is gone, writes what is    *)
(* left in the buffer.  A process that dies loses its cache and its lock,  *)
(* and a new one takes its place.                                          *)
(***************************************************************************)
EXTENDS Integers, Sequences, FiniteSets

CONSTANTS
  Writer,     \* the processes that hold an AuditLog on the two paths
  Free,       \* nobody holds the lock
  Env,        \* what may go wrong, see Failures
  MaxEntries  \* bound: no more than this many entries are composed

(* "crash"     a process may die between any two steps, or in a write       *)
(* "torn"      a write to the primary may raise, wherever it has got to     *)
(* "io_error"  a write to the mirror may raise, wherever it has got to      *)
Failures == {"crash", "torn", "io_error"}

ASSUME AuditAssumption ==
  /\ Free \notin Writer
  /\ Env \subseteq Failures
  /\ MaxEntries \in Nat

VARIABLES
  primary,     \* the primary sink, see Piece
  mirror,      \* the mirror sink
  size,        \* the primary only grows: how many writes have made it longer
  lock,        \* the process holding flock(LOCK_EX) on the primary
  pc,          \* where each process is in append or next_seq
  cachedHead,  \* AuditLog._cached_head, its hash and sequence number
  cachedSize,  \* AuditLog._cached_size
  peeked,      \* the size next_seq read before it scans the file
  pending,     \* append: the line it writes
  sent,        \* how much of it a write that raised had written
  made,        \* how many entries were composed: no two have the same hash
  reading,     \* check_mirror is between its two reads
  seen,        \* check_mirror: the primary as it was read
  verdict,     \* check_mirror: what the comparison said
  overlapped,  \* history: the lock was taken while a failed append was closing
  lost         \* history: the entries whose call died or raised

sinks  == <<primary, mirror, size>>
caches == <<cachedHead, cachedSize, peeked>>
calls  == <<pending, sent, made>>
reader == <<reading, seen, verdict>>
history == <<overlapped, lost>>
vars == <<sinks, lock, pc, caches, calls, reader, history>>

Line == [seq : Nat, prev : Nat, hash : Nat]
NoLine == [seq |-> 0, prev |-> 0, hash |-> 0]
Step == {"idle", "peek", "locked", "headed", "written", "closing", "mirror", "mirrorclosing"}
Verdict == {"none", "agree", "behind", "ahead", "diverge"}

-----------------------------------------------------------------------------
(* A sink is the sequence of what was written to it.  A write has put down *)
(* nothing of its line (0), a part of the JSON (1), all of it (2), or the  *)
(* newline too (3).                                                        *)

Piece == [of : Line, from : 0..1, to : 1..2, ended : BOOLEAN]

Whole(piece) == piece.from = 0 /\ piece.to = 2

\* The next write continues the last line of the file
InLine(f) == f # <<>> /\ ~f[Len(f)].ended

Continues(f, line, i) == InLine(f) /\ f[Len(f)].of = line /\ f[Len(f)].to = i

LastBecomes(f, to, ended) ==
  [f EXCEPT ![Len(f)] = [of |-> @.of, from |-> @.from, to |-> to, ended |-> ended]]

\* A write of a line that had got to i gets to j.  A newline alone ends whatever
\* line it comes to, or leaves a blank one, which no reader sees.
Put(f, line, i, j) ==
  LET to == IF j = 3 THEN 2 ELSE j
  IN CASE i = j -> f
       [] i # j /\ i = 2 ->
            IF InLine(f) THEN LastBecomes(f, f[Len(f)].to, TRUE) ELSE f
       [] i # j /\ i # 2 ->
            IF Continues(f, line, i)
              THEN LastBecomes(f, to, j = 3)
              ELSE Append(f, [of |-> line, from |-> i, to |-> to, ended |-> j = 3])

\* _read_lines: where the lines begin
Begins(f) == {n \in DOMAIN f : n = 1 \/ f[n - 1].ended}
Lines(f) == Cardinality(Begins(f))

\* entries: every line is JSON
Readable(f) == \A n \in DOMAIN f : n \in Begins(f) /\ Whole(f[n])

Entries(f) == [n \in DOMAIN f |-> f[n].of]

LastLine == IF primary = <<>> THEN NoLine ELSE primary[Len(primary)].of

Chain == INSTANCE HashChain WITH chain <- Entries(primary), Hash <- 1 .. MaxEntries

WritePrimary(w, j) ==
  /\ primary' = Put(primary, pending[w], sent[w], j)
  /\ size' = IF j = sent[w] THEN size ELSE size + 1
  /\ UNCHANGED mirror

WriteSecond(w, j) ==
  /\ mirror' = Put(mirror, pending[w], sent[w], j)
  /\ UNCHANGED <<primary, size>>

\* The call is over
Returns(w) ==
  /\ pc' = [pc EXCEPT ![w] = "idle"]
  /\ pending' = [pending EXCEPT ![w] = NoLine]
  /\ sent' = [sent EXCEPT ![w] = 0]
  /\ UNCHANGED made

-----------------------------------------------------------------------------
(* next_seq outside the lock: the size is read first, the file after it.   *)

PeekSize(w) ==
  /\ pc[w] = "idle"
  /\ cachedSize[w] # size
  /\ peeked' = [peeked EXCEPT ![w] = size]
  /\ pc' = [pc EXCEPT ![w] = "peek"]
  /\ UNCHANGED <<sinks, lock, cachedHead, cachedSize, calls, reader, history>>

\* A line that is not JSON: the scan raises and the cache stays as it was
PeekScan(w) ==
  /\ pc[w] = "peek"
  /\ IF Readable(primary)
       THEN /\ cachedHead' = [cachedHead EXCEPT ![w] = LastLine]
            /\ cachedSize' = [cachedSize EXCEPT ![w] = peeked[w]]
       ELSE UNCHANGED <<cachedHead, cachedSize>>
  /\ pc' = [pc EXCEPT ![w] = "idle"]
  /\ peeked' = [peeked EXCEPT ![w] = 0]
  /\ UNCHANGED <<sinks, lock, calls, reader, history>>

-----------------------------------------------------------------------------
(* append.                                                                 *)

\* A process whose append raised has let go of the lock and not closed its file
Closing == {v \in Writer : pc[v] = "closing"}

TakesLock(w) ==
  /\ pc[w] = "idle"
  /\ made < MaxEntries
  /\ lock' = w
  /\ pc' = [pc EXCEPT ![w] = "locked"]
  /\ overlapped' = (overlapped \/ Closing # {})
  /\ UNCHANGED <<sinks, caches, calls, reader, lost>>

LockShared(w) == TakesLock(w)

Lock(w) == lock = Free /\ TakesLock(w)

CacheHit(w) == cachedSize[w] = size

\* head: the cached entry when the size is unchanged, else a scan of the file
HeadSeen(w) == IF CacheHit(w) THEN cachedHead[w] ELSE LastLine

NewLineKeepsPrev(head) ==
  [seq  |-> IF head = NoLine THEN 0 ELSE head.seq + 1,
   prev |-> IF head = NoLine THEN Chain!Genesis ELSE head.prev,
   hash |-> made + 1]

\* The entry that follows a head; the first one starts from the genesis hash
NewLine(head) ==
  [seq  |-> IF head = NoLine THEN 0 ELSE head.seq + 1,
   prev |-> IF head = NoLine THEN Chain!Genesis ELSE head.hash,
   hash |-> made + 1]

ReadHeadSkipsDamage(w) ==
  /\ pc[w] = "locked"
  /\ cachedHead' = [cachedHead EXCEPT ![w] = HeadSeen(w)]
  /\ cachedSize' = [cachedSize EXCEPT ![w] = size]
  /\ pending' = [pending EXCEPT ![w] = NewLine(HeadSeen(w))]
  /\ made' = made + 1
  /\ pc' = [pc EXCEPT ![w] = "headed"]
  /\ UNCHANGED <<sinks, lock, peeked, sent, reader, history>>

\* A cache hit skips the scan that would have found a damaged line
ReadHead(w) ==
  /\ pc[w] = "locked"
  /\ CacheHit(w) \/ Readable(primary)
  /\ cachedHead' = [cachedHead EXCEPT ![w] = HeadSeen(w)]
  /\ cachedSize' = [cachedSize EXCEPT ![w] = size]
  /\ pending' = [pending EXCEPT ![w] = NewLine(HeadSeen(w))]
  /\ made' = made + 1
  /\ pc' = [pc EXCEPT ![w] = "headed"]
  /\ UNCHANGED <<sinks, lock, peeked, sent, reader, history>>

\* The scan raises on a damaged line; the finally clause lets go of the lock
HeadRaises(w) ==
  /\ pc[w] = "locked"
  /\ ~CacheHit(w) /\ ~Readable(primary)
  /\ lock' = Free
  /\ pc' = [pc EXCEPT ![w] = "idle"]
  /\ UNCHANGED <<sinks, caches, calls, reader, history>>

WriteKeepsHead(w) ==
  /\ pc[w] = "headed"
  /\ WritePrimary(w, 3)
  /\ cachedSize' = [cachedSize EXCEPT ![w] = size']
  /\ pc' = [pc EXCEPT ![w] = "written"]
  /\ UNCHANGED <<lock, cachedHead, peeked, calls, reader, history>>

Write(w) ==
  /\ pc[w] = "headed"
  /\ WritePrimary(w, 3)
  /\ cachedHead' = [cachedHead EXCEPT ![w] = pending[w]]
  /\ cachedSize' = [cachedSize EXCEPT ![w] = size']
  /\ pc' = [pc EXCEPT ![w] = "written"]
  /\ UNCHANGED <<lock, peeked, calls, reader, history>>

\* flush or fsync raises: the finally clause lets go of the lock
WriteStops(w) ==
  /\ pc[w] = "headed" /\ "torn" \in Env
  /\ \E j \in 0..3 : WritePrimary(w, j) /\ sent' = [sent EXCEPT ![w] = j]
  /\ lock' = Free
  /\ pc' = [pc EXCEPT ![w] = "closing"]
  /\ lost' = lost \cup {pending[w].hash}
  /\ UNCHANGED <<caches, pending, made, reader, overlapped>>

\* The with statement closes the file, which flushes what is left in its buffer
Close(w) ==
  /\ pc[w] = "closing"
  /\ \E j \in sent[w]..3 : WritePrimary(w, j)
  /\ Returns(w)
  /\ UNCHANGED <<lock, caches, reader, history>>

Unlock(w) ==
  /\ pc[w] = "written"
  /\ lock' = Free
  /\ pc' = [pc EXCEPT ![w] = "mirror"]
  /\ UNCHANGED <<sinks, caches, calls, reader, history>>

WriteMirrorTwice(w) ==
  /\ pc[w] = "mirror"
  /\ WriteSecond(w, 3)
  /\ UNCHANGED <<lock, pc, caches, calls, reader, history>>

WriteMirrorIfLast(w) ==
  /\ pc[w] = "mirror"
  /\ pending[w] = LastLine
  /\ WriteSecond(w, 3)
  /\ Returns(w)
  /\ UNCHANGED <<lock, caches, reader, history>>

\* The mirror is written after the lock was let go
WriteMirror(w) ==
  /\ pc[w] = "mirror"
  /\ WriteSecond(w, 3)
  /\ Returns(w)
  /\ UNCHANGED <<lock, caches, reader, history>>

MirrorFails(w) ==
  /\ pc[w] = "mirror" /\ "io_error" \in Env
  /\ \E j \in 0..3 : WriteSecond(w, j) /\ sent' = [sent EXCEPT ![w] = j]
  /\ pc' = [pc EXCEPT ![w] = "mirrorclosing"]
  /\ lost' = lost \cup {pending[w].hash}
  /\ UNCHANGED <<lock, caches, pending, made, reader, overlapped>>

MirrorClose(w) ==
  /\ pc[w] = "mirrorclosing"
  /\ \E j \in sent[w]..3 : WriteSecond(w, j)
  /\ Returns(w)
  /\ UNCHANGED <<lock, caches, reader, history>>

\* The process dies, in a write it may be in, and another one starts in its place
Crash(w) ==
  /\ "crash" \in Env
  /\ \/ pc[w] \in {"headed", "closing"} /\ \E j \in sent[w]..3 : WritePrimary(w, j)
     \/ pc[w] \in {"mirror", "mirrorclosing"} /\ \E j \in sent[w]..3 : WriteSecond(w, j)
     \/ UNCHANGED sinks
  /\ lost' = IF pending[w] = NoLine THEN lost ELSE lost \cup {pending[w].hash}
  /\ Returns(w)
  /\ lock' = IF lock = w THEN Free ELSE lock
  /\ cachedHead' = [cachedHead EXCEPT ![w] = NoLine]
  /\ cachedSize' = [cachedSize EXCEPT ![w] = -1]
  /\ peeked' = [peeked EXCEPT ![w] = 0]
  /\ UNCHANGED <<reader, overlapped>>

-----------------------------------------------------------------------------
(* check_mirror by a process that is not appending.                        *)

ReadPrimary ==
  /\ ~reading
  /\ reading' = TRUE
  /\ seen' = primary
  /\ verdict' = "none"
  /\ UNCHANGED <<sinks, lock, pc, caches, calls, history>>

\* Line for line, whether or not the last one has its newline
SameLines(p, m) ==
  /\ DOMAIN p = DOMAIN m
  /\ \A n \in DOMAIN p : /\ [p[n] EXCEPT !.ended = TRUE] = [m[n] EXCEPT !.ended = TRUE]
                         /\ p[n].ended = m[n].ended \/ n = Len(p)

CompareAlarmsWhenEqual(p, m) ==
  IF Lines(m) < Lines(p) THEN "behind" ELSE "ahead"

Compare(p, m) ==
  CASE Lines(m) < Lines(p) -> "behind"
    [] Lines(m) > Lines(p) -> "ahead"
    [] Lines(m) = Lines(p) /\ ~SameLines(p, m) -> "diverge"
    [] OTHER -> "agree"

ReadMirror ==
  /\ reading
  /\ reading' = FALSE
  /\ verdict' = Compare(seen, mirror)
  /\ seen' = <<>>
  /\ UNCHANGED <<sinks, lock, pc, caches, calls, history>>

-----------------------------------------------------------------------------

Init ==
  /\ primary = <<>> /\ mirror = <<>> /\ size = 0
  /\ lock = Free
  /\ pc = [w \in Writer |-> "idle"]
  /\ cachedHead = [w \in Writer |-> NoLine]
  /\ cachedSize = [w \in Writer |-> -1]
  /\ peeked = [w \in Writer |-> 0]
  /\ pending = [w \in Writer |-> NoLine] /\ sent = [w \in Writer |-> 0] /\ made = 0
  /\ reading = FALSE /\ seen = <<>> /\ verdict = "none"
  /\ overlapped = FALSE /\ lost = {}

Appending(w) ==
  \/ Lock(w) \/ ReadHead(w) \/ HeadRaises(w) \/ Write(w) \/ WriteStops(w) \/ Close(w)
  \/ Unlock(w) \/ WriteMirror(w) \/ MirrorFails(w) \/ MirrorClose(w)

Next ==
  \/ \E w \in Writer : PeekSize(w) \/ PeekScan(w) \/ Appending(w) \/ Crash(w)
  \/ ReadPrimary \/ ReadMirror

Spec == Init /\ [][Next]_vars

\* A call that has begun and not raised runs to its end unless its process dies
FairSpec ==
  /\ Spec
  /\ \A w \in Writer : WF_vars(ReadHead(w) \/ HeadRaises(w))
  /\ \A w \in Writer : WF_vars(Write(w) \/ WriteStops(w))
  /\ \A w \in Writer : WF_vars(Unlock(w))
  /\ \A w \in Writer : WF_vars(WriteMirror(w) \/ MirrorFails(w))

-----------------------------------------------------------------------------
(* Properties.                                                             *)

\* The variables hold what the program keeps in them.
TypeOK ==
  /\ primary \in Seq(Piece) /\ mirror \in Seq(Piece) /\ size \in Nat
  /\ lock \in Writer \cup {Free}
  /\ pc \in [Writer -> Step]
  /\ cachedHead \in [Writer -> Line]
  /\ cachedSize \in [Writer -> Nat \cup {-1}] /\ peeked \in [Writer -> Nat]
  /\ pending \in [Writer -> Line] /\ sent \in [Writer -> 0..3] /\ made \in Nat
  /\ reading \in BOOLEAN /\ seen \in Seq(Piece) /\ verdict \in Verdict
  /\ overlapped \in BOOLEAN /\ lost \subseteq Nat

\* Unless a failed append was closing its file while another took the lock, the
\* entries put down in the primary are the append-only chain of HashChain,
\* whether or not the last one got there whole.
ChainRefined == Chain!Init /\ [][overlapped' \/ Chain!Next]_(Entries(primary))

\* append, "computing seq/prev_hash and writing must be one critical section":
\* whoever appends, dies, raises or peeks outside the lock, verify_chain finds
\* no gap and no break in a primary it can read.  The exception is the append
\* that closes its file, and so writes, after another took the lock.
ChainIntact ==
  ~overlapped /\ Readable(primary) => Chain!Linked(Entries(primary))

\* head, "the size check is what makes the cache safe": a cache whose size is
\* the file's holds the file's last entry, however reads and writes interleave.
CacheCoherent ==
  ~overlapped => \A w \in Writer : CacheHit(w) => cachedHead[w] = LastLine

\* An entry that was cut short is never written over: it stays at the tail,
\* where the next replay finds it.  An entry cut just before its newline is
\* whole to a reader, and the next one does go on the same line.
DamageAtTail ==
  ~overlapped => \A n \in DOMAIN primary : n < Len(primary) => Whole(primary[n])

\* Whatever part of a line is in the mirror, cut or not, the primary holds the
\* whole of it, and no part of it is in the mirror twice.
MirrorIsCopy ==
  /\ \A i \in DOMAIN mirror : \E j \in DOMAIN primary :
       Whole(primary[j]) /\ primary[j].of = mirror[i].of
  /\ \A i, j \in DOMAIN mirror :
       mirror[i].of = mirror[j].of /\ i < j => mirror[i].to <= mirror[j].from

\* check_mirror, "mirror has entries the primary does not. SEV-1: unauthorized
\* write to a sink": with only append writing, and wherever its writes are cut,
\* it is said only when the primary grew between the two reads.
AlarmNeedsAppend ==
  [][ReadMirror /\ verdict' = "ahead" => Lines(primary) > Lines(seen)]_vars

Holds(f, h) == \E n \in DOMAIN f : Whole(f[n]) /\ f[n].of.hash = h

\* The mirror check's "SEV-1 if it does not converge": each entry the primary
\* holds gets to the mirror, unless its call raised or died.
MirrorConverges ==
  \A h \in 1 .. MaxEntries : Holds(primary, h) ~> (Holds(mirror, h) \/ h \in lost)

\* "Both sinks receive the identical canonical line, so any divergence is a real
\* integrity event": when no call is under way the sinks are equal.
QuietSinksAgree ==
  (\A w \in Writer : pc[w] \in {"idle", "peek"}) => mirror = primary

=============================================================================
