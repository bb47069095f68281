-------------------------------- MODULE AuditLog --------------------------------
(***************************************************************************)
(* The hash-chained audit log (src/mysti/security/audit.py): one file of   *)
(* lines, each holding its sequence number and the digest of the line      *)
(* before it.  A program reads the file once, when it starts, and then     *)
(* chains from the number and digest it keeps in memory; a lock serialises *)
(* the threads of one program.                                             *)
(*                                                                         *)
(* Payloads differ (each has a timestamp) and the digest is injective, so  *)
(* a line is identified by its digest, a number drawn when it is computed. *)
(* The file keeps of a line the whole, its text without the newline, or a  *)
(* part of the text: the buffered line goes out when the file is closed,   *)
(* and a full disk, a crash or a loss of power may cut it short.  Appends  *)
(* of two programs do not mix within a line.                               *)
(***************************************************************************)
EXTENDS Naturals, Sequences, SequencesExt

CONSTANTS
    Processes,      \* programs logging to the same file
    Threads,
    ProcessOf,      \* [Threads -> Processes]
    MaxEntries,     \* bound on the log() calls
    Faults,         \* subset of {"io_error", "crash", "power_loss"}
    None

ASSUME ProcessOfAssumption == ProcessOf \in [Threads -> Processes]
ASSUME MaxEntriesAssumption == MaxEntries \in Nat
ASSUME NoneAssumption ==
    None \notin Threads \cup (Nat \X Nat)
                 \cup [seq : Nat, prev : Nat, hash : Nat, kept : {"line", "text", "part"}]

Genesis == 0

\* What is left of a line of which `kept` is there when it is cut short.
Cut == [line |-> {"text", "part"}, text |-> {"part"}, part |-> {"part"}]

Line == [seq : 1 .. MaxEntries, prev : 0 .. MaxEntries, hash : 1 .. MaxEntries,
         kept : DOMAIN Cut]

VARIABLES
    file,       \* the lines of the file, with what it keeps of each
    tail,       \* tail[p]: <<_seq, _last_hash>>, None when p is not running
    lock,       \* lock[p]: the thread that holds it, or None
    line,       \* line[t]: the line t has computed, or None
    calls,      \* the number of log() calls that have computed their line
    returned,   \* observer: the digests of the lines whose log() has returned,
                \* but for those a loss of power has taken back
    unread      \* observer: the digests of the lines whose log() has raised
                \* although they are written, and which no start has read since

vars == <<file, tail, lock, line, calls, returned, unread>>

TypeOK ==
    /\ file \in Seq(Line)
    /\ tail \in [Processes -> ((0 .. MaxEntries) \X (0 .. MaxEntries)) \cup {None}]
    /\ lock \in [Processes -> Threads \cup {None}]
    /\ line \in [Threads -> Line \cup {None}]
    /\ calls \in 0 .. MaxEntries
    /\ returned \subseteq 1 .. MaxEntries
    /\ unread \subseteq 1 .. MaxEntries

Init ==
    /\ file = <<>>
    /\ tail = [p \in Processes |-> None]
    /\ lock = [p \in Processes |-> None]
    /\ line = [t \in Threads |-> None]
    /\ calls = 0
    /\ returned = {}
    /\ unread = {}

-----------------------------------------------------------------------------
\* json.loads accepts the text of line n: it is whole, and on a line of its own.
Readable(n) ==
    /\ file[n].kept = "line" \/ (file[n].kept = "text" /\ n = Len(file))
    /\ n > 1 => file[n - 1].kept = "line"

\* __init__ and _load_tail: the number and digest of the last line.  The program
\* does not start when a line is unreadable.
Open(p) ==
    /\ tail[p] = None
    /\ \A n \in DOMAIN file : Readable(n)
    /\ tail' = [tail EXCEPT ![p] =
            IF file = <<>> THEN <<0, Genesis>> ELSE <<Last(file).seq, Last(file).hash>>]
    /\ unread' = {h \in unread : file # <<>> => h # Last(file).hash}
    /\ UNCHANGED <<file, lock, line, calls, returned>>

\* Mutation: the lock is not waited for.
Acquire_NoWait(t) ==
    LET p == ProcessOf[t]
    IN  /\ tail[p] # None /\ line[t] = None
        /\ lock' = [lock EXCEPT ![p] = t]
        /\ UNCHANGED <<file, tail, line, calls, returned, unread>>

Acquire(t) ==
    LET p == ProcessOf[t]
    IN  /\ tail[p] # None /\ line[t] = None
        /\ lock[p] = None
        /\ lock' = [lock EXCEPT ![p] = t]
        /\ UNCHANGED <<file, tail, line, calls, returned, unread>>

\* Bound: MaxEntries.
Compute(t) ==
    LET p == ProcessOf[t]
    IN  /\ lock[p] = t /\ line[t] = None
        /\ calls < MaxEntries
        /\ calls' = calls + 1
        /\ line' = [line EXCEPT ![t] =
                [seq |-> tail[p][1] + 1, prev |-> tail[p][2], hash |-> calls', kept |-> "line"]]
        /\ UNCHANGED <<file, tail, lock, returned, unread>>

Written(t) == \E n \in DOMAIN file : file[n] = line[t]

WriteLine(t) ==
    /\ line[t] # None /\ ~Written(t)
    /\ file' = Append(file, line[t])
    /\ UNCHANGED <<tail, lock, line, calls, returned, unread>>

Release(t) ==
    /\ lock' = [lock EXCEPT ![ProcessOf[t]] = None]
    /\ line' = [line EXCEPT ![t] = None]

LogReturns(t) ==
    /\ line[t] # None /\ Written(t)
    /\ tail' = [tail EXCEPT ![ProcessOf[t]] = <<line[t].seq, line[t].hash>>]
    /\ Release(t)
    /\ returned' = returned \cup {line[t].hash}
    /\ UNCHANGED <<file, calls, unread>>

\* The file keeps nothing of the line thread t has not written, or the beginning.
CutShort(t) ==
    \/ UNCHANGED file
    \/ /\ line[t] # None /\ ~Written(t)
       /\ \E kept \in Cut["line"] : file' = Append(file, [line[t] EXCEPT !.kept = kept])

\* Mutation: a write error is swallowed, and the entry counted as written.
WriteFails_Swallowed(t) ==
    /\ "io_error" \in Faults
    /\ line[t] # None
    /\ CutShort(t)
    /\ tail' = [tail EXCEPT ![ProcessOf[t]] = <<line[t].seq, line[t].hash>>]
    /\ Release(t)
    /\ returned' = returned \cup {line[t].hash}
    /\ UNCHANGED <<calls, unread>>

\* The file cannot be opened, written or closed: the exception releases the lock,
\* and leaves the number and digest in memory as they were.
WriteFails(t) ==
    /\ "io_error" \in Faults
    /\ line[t] # None
    /\ CutShort(t)
    /\ Release(t)
    /\ unread' = IF Written(t) THEN unread \cup {line[t].hash} ELSE unread
    /\ UNCHANGED <<tail, calls, returned>>

-----------------------------------------------------------------------------
Stopped(p) ==
    /\ tail' = [tail EXCEPT ![p] = None]
    /\ lock' = [lock EXCEPT ![p] = None]
    /\ line' = [t \in Threads |-> IF ProcessOf[t] = p THEN None ELSE line[t]]
    /\ UNCHANGED <<calls, unread>>

Crash(p) ==
    /\ "crash" \in Faults
    /\ Stopped(p)
    /\ UNCHANGED file \/ \E t \in Threads : ProcessOf[t] = p /\ CutShort(t)
    /\ UNCHANGED returned

\* Nothing is ever synced: the file system may lose any number of last lines, and the
\* end of one more.
PowerLoss(p) ==
    /\ "power_loss" \in Faults
    /\ \A q \in Processes \ {p} : tail[q] = None
    /\ Stopped(p)
    /\ \E n \in 0 .. Len(file) :
        \/ file' = SubSeq(file, 1, n)
        \/ /\ n # 0
           /\ \E kept \in Cut[file[n].kept] :
                 file' = [SubSeq(file, 1, n) EXCEPT ![n].kept = kept]
    /\ returned' = {h \in returned :
                      \E k \in DOMAIN file' : file'[k].hash = h /\ file'[k].kept = "line"}

Next ==
    \/ \E t \in Threads :
        Acquire(t) \/ Compute(t) \/ WriteLine(t) \/ LogReturns(t) \/ WriteFails(t)
    \/ \E p \in Processes : Open(p) \/ Crash(p) \/ PowerLoss(p)

Spec == Init /\ [][Next]_vars

-----------------------------------------------------------------------------
(* Properties. *)

\* Line n has the next number and the digest of the line before.
Chained(n) ==
    /\ file[n].seq = n
    /\ file[n].prev = IF n = 1 THEN Genesis ELSE file[n - 1].hash

\* verify() returns True; an unreadable line makes it raise.
verify == \A n \in DOMAIN file : Readable(n) /\ Chained(n)

\* A log nobody has tampered with verifies.
ChainVerifies == verify

\* Line n bears the mark of an error: a fault has cut it short, or it follows a line
\* that is in the file although its log() has raised, and that the program has not
\* read again since.
Marked(n) ==
    \/ file[n].kept # "line"
    \/ n > 1 /\ file[n - 1].hash \in unread

\* The log of one program verifies up to the first line that bears the mark of an
\* error: whatever its threads, crashes and restarts, the chain does not break where
\* nothing went wrong, and a restart goes on from the line whose log() raised.
\* Beyond the first mark nothing is promised: the next line is glued to one cut short,
\* or has the number of the one that was written already.
VerifiesUpToErrors ==
    \A n \in DOMAIN file :
        (\A m \in 1 .. n : ~Marked(m)) => Readable(n) /\ Chained(n)

\* What log() has returned for stays whole in the file, once, through write errors,
\* crashes, restarts and the calls of other threads; only a loss of power takes it
\* back, since nothing is synced.  It need not be on a line of its own: what an earlier
\* error has cut short may stand before it.
ReturnedIsLogged ==
    \A h \in returned : \E n \in DOMAIN file :
        /\ file[n].hash = h /\ file[n].kept = "line"
        /\ \A m \in DOMAIN file \ {n} : file[m].hash # h
=============================================================================
