---------------------------- MODULE SummariesProofs ----------------------------
(***************************************************************************)
(* For any number of clients, summarizers, sessions and messages, either   *)
(* store and all faults: no index lists a message that has no blob, and on *)
(* the local store a summary covers the first messages of its session,     *)
(* each once.                                                              *)
(*                                                                         *)
(* The first follows from the order of the writes: whoever holds a copy of *)
(* an index with a new id has put the blob.  The second needs that indexes *)
(* only grow on the local store: between reading one and writing it back a *)
(* client keeps the event loop, so that its copy is the index and one more *)
(* id.  Whatever a summarizer has read, at whatever time, is then a prefix *)
(* of the index, and of two prefixes the longer extends the other.  For    *)
(* the same reason, on the local store, a copy of the session list knows   *)
(* every session of the list when it is written back, what has been        *)
(* acknowledged stays listed, and the model is asked about the prompt.     *)
(***************************************************************************)
EXTENDS Summaries, SequenceTheorems, WellFoundedInduction, TLAPS

\* What build_context selects is followed by LocalInv only.
AnyContext == Seq(Messages) \cup {Selected(ids) : ids \in Seq(Messages)}

AnyTask == [op : {"none", "start", "chat", "read"},
            pc : {"idle", "load", "put", "load_ids", "save_ids", "save",
                  "load_context", "load_context_ids", "fetch", "llm"},
            session : Sessions \cup {None},
            prompt : Messages \cup {None}, reply : Messages \cup {None},
            adding : Messages \cup {None},
            sessions : [Sessions -> Nat \cup {None}],
            ids : Seq(Messages), context : AnyContext]

AnyJob == [pc : {"idle", "session", "messages", "load", "save"},
           session : Sessions \cup {None}, force : BOOLEAN,
           messages : Seq(Messages), merged : Seq(Messages)]

Shape ==
    /\ store \in Stores
    /\ sessions \in [Sessions -> Nat \cup {None}]
    /\ listed \in [Sessions -> Seq(Messages)]
    /\ stored \subseteq Messages
    /\ summaries \in [Sessions -> Seq(Messages) \cup {None}]
    /\ task \in [Clients -> AnyTask]
    /\ job \in [Summarizers -> AnyJob]

\* What the locals are at each suspension point.
TaskShape(t) ==
    /\ t \in AnyTask
    /\ t.pc # "idle" => t.session \in Sessions
    /\ t.op = "chat" => {t.prompt, t.reply, t.adding} \subseteq Messages
    /\ t.pc \in {"put", "load_ids", "save_ids", "llm"} => t.op = "chat"

\* The ids in hand have blobs, and so has the one about to join them.
HasBlobs(t, blobs) ==
    /\ ToSet(t.ids) \subseteq blobs
    /\ t.pc = "load_ids" => t.adding \in blobs

\* The copy about to be written back is the index with the new id.
Current(t) ==
    store = "local" /\ t.pc = "save_ids" => t.ids = Append(listed[t.session], t.adding)

Released(t) == t.pc \in {"idle", "llm"}

LoopHeld == store = "local" => \A c \in Clients : Released(task[c]) \/ loop = c

\* What a summarizer holds was a prefix of the index, and is one still.
Read(t) ==
    /\ t.pc # "idle" => t.session \in Sessions
    /\ store = "local" =>
        /\ t.pc = "load" => IsPrefix(t.messages, listed[t.session])
        /\ t.pc = "save" => IsPrefix(t.merged, listed[t.session])

Inv ==
    /\ Shape
    /\ \A s \in Sessions : ToSet(listed[s]) \subseteq stored
    /\ \A c \in Clients : TaskShape(task[c]) /\ HasBlobs(task[c], stored) /\ Current(task[c])
    /\ LoopHeld
    /\ \A p \in Summarizers : Read(job[p])
    /\ SummaryCoversPrefix

-----------------------------------------------------------------------------
(* Lemmas about prefixes. *)

LEMMA PrefixPointwise ==
    ASSUME NEW S, NEW s \in Seq(S), NEW t \in Seq(S)
    PROVE  IsPrefix(s, t) <=> Len(s) <= Len(t) /\ \A i \in 1 .. Len(s) : s[i] = t[i]
<1>1. Len(s) \in Nat /\ Len(t) \in Nat
  BY LenProperties
<1>2. CASE Len(s) <= Len(t)
  <2> DEFINE a == SubSeq(s, 1, Len(s))
             b == SubSeq(t, 1, Len(s))
  <2>1. a \in Seq(S) /\ Len(a) = Len(s) /\ \A i \in 1 .. Len(s) : a[i] = s[i]
    BY <1>1
  <2>2. b \in Seq(S) /\ Len(b) = Len(s) /\ \A i \in 1 .. Len(s) : b[i] = t[i]
    BY <1>1, <1>2
  <2>3. ASSUME a = b PROVE \A i \in 1 .. Len(s) : s[i] = t[i]
    BY <2>1, <2>2, <2>3
  <2>4. ASSUME \A i \in 1 .. Len(s) : s[i] = t[i] PROVE a = b
    <3>1. \A i \in 1 .. Len(a) : a[i] = b[i]
      BY <2>1, <2>2, <2>4
    <3> HIDE DEF a, b
    <3> QED BY <2>1, <2>2, <3>1, SeqEqual
  <2> QED BY <1>2, <2>3, <2>4 DEF IsPrefix
<1> QED BY <1>1, <1>2 DEF IsPrefix

LEMMA PrefixReflexive ==
    ASSUME NEW S, NEW s \in Seq(S)
    PROVE  IsPrefix(s, s)
BY PrefixPointwise

LEMMA PrefixAppend ==
    ASSUME NEW S, NEW s \in Seq(S), NEW t \in Seq(S), NEW x \in S, IsPrefix(s, t)
    PROVE  IsPrefix(s, Append(t, x))
<1> DEFINE u == Append(t, x)
<1>1. Len(s) <= Len(t) /\ \A i \in 1 .. Len(s) : s[i] = t[i]
  BY PrefixPointwise
<1>2. u \in Seq(S) /\ Len(u) = Len(t) + 1 /\ \A i \in 1 .. Len(t) : u[i] = t[i]
  OBVIOUS
<1>3. Len(s) \in Nat /\ Len(t) \in Nat
  BY LenProperties
<1> HIDE DEF u
<1>4. Len(s) <= Len(u) /\ \A i \in 1 .. Len(s) : s[i] = u[i]
  BY <1>1, <1>2, <1>3
<1>5. IsPrefix(s, u)
  BY <1>2, <1>4, PrefixPointwise
<1> QED BY <1>5 DEF u

\* Of two prefixes of one sequence, the longer is the shorter, extended.
LEMMA ExtendedIsLonger ==
    ASSUME NEW s \in Seq(Messages), NEW t \in Seq(Messages), NEW whole \in Seq(Messages),
           IsPrefix(s, whole), IsPrefix(t, whole), Len(t) > Len(s)
    PROVE  Extended(s, t) = t
<1>1. Len(s) \in Nat /\ Len(t) \in Nat /\ Len(whole) \in Nat
  BY LenProperties
<1>2. \A i \in 1 .. Len(s) : s[i] = whole[i]
  BY PrefixPointwise
<1>3. \A i \in 1 .. Len(t) : t[i] = whole[i]
  BY PrefixPointwise
<1> DEFINE rest == SubSeq(t, Len(s) + 1, Len(t))
<1>4. /\ rest \in Seq(Messages)
      /\ Len(rest) = Len(t) - Len(s)
      /\ \A i \in 1 .. Len(rest) : rest[i] = t[Len(s) + i]
  BY <1>1
<1> HIDE DEF rest
<1> DEFINE u == s \o rest
<1>5. u \in Seq(Messages) /\ Len(u) = Len(t)
  BY <1>1, <1>4
<1>6. ASSUME NEW i \in 1 .. Len(u) PROVE u[i] = t[i]
  <2>1. CASE i <= Len(s)
    BY <1>1, <1>2, <1>3, <1>4, <1>5, <2>1
  <2>2. CASE i > Len(s)
    <3>1. i - Len(s) \in 1 .. Len(rest) /\ u[i] = rest[i - Len(s)]
      BY <1>1, <1>4, <1>5, <2>2
    <3> QED BY <1>1, <1>4, <3>1
  <2> QED BY <1>1, <1>5, <2>1, <2>2
<1> HIDE DEF u
<1>7. u = t
  BY <1>5, <1>6, SeqEqual
<1> QED BY <1>7 DEF Extended, u, rest

LEMMA AppendElements ==
    ASSUME NEW S, NEW s \in Seq(S), NEW x
    PROVE  ToSet(Append(s, x)) = ToSet(s) \cup {x}
<1>1. DOMAIN s = 1 .. Len(s) /\ Len(s) \in Nat
  OBVIOUS
<1>2. /\ DOMAIN Append(s, x) = 1 .. Len(s) + 1
      /\ \A i \in 1 .. Len(s) : Append(s, x)[i] = s[i]
      /\ Append(s, x)[Len(s) + 1] = x
  OBVIOUS
<1> QED BY <1>1, <1>2 DEF ToSet

-----------------------------------------------------------------------------
(* A step that only moves one client or one summarizer on. *)

LEMMA IdleIsSound ==
    /\ TaskShape(Idle) /\ HasBlobs(Idle, stored) /\ Current(Idle) /\ Released(Idle)
    /\ Idle \in AnyTask
<1>1. Idle \in AnyTask
  BY DEF Idle, Begun, AnyTask, AnyContext, NoSessions
<1>2. ToSet(Idle.ids) = {}
  BY DEF Idle, Begun, ToSet
<1> QED BY <1>1, <1>2 DEF TaskShape, HasBlobs, Current, Released, Idle, Begun

LEMMA LoopKept ==
    ASSUME Inv, NEW c \in Clients, NEW t, Continue(c, t), Holds(c), store' = store
    PROVE  LoopHeld'
<1>1. task' = [task EXCEPT ![c] = t] /\ task \in [Clients -> AnyTask]
  BY DEF Inv, Shape, Continue
<1>2. SUFFICES ASSUME store = "local", NEW d \in Clients, ~Released(task'[d])
               PROVE  loop' = d
  BY DEF LoopHeld, Released
<1>3. CASE d = c
  <2>1. task'[d] = t
    BY <1>1, <1>3
  <2> QED BY <1>2, <1>3, <2>1 DEF Continue, Released
<1>4. CASE d # c
  <2>1. task'[d] = task[d]
    BY <1>1, <1>4
  <2>2. loop = d
    BY <1>2, <2>1 DEF Inv, LoopHeld
  <2>3. loop \in {None, c}
    BY DEF Holds
  <2>4. d # None
    BY NoneAssumption
  <2> QED BY <1>4, <2>2, <2>3, <2>4
<1> QED BY <1>3, <1>4

LEMMA ClientMoves ==
    ASSUME Inv, NEW c \in Clients, NEW t, Continue(c, t), Holds(c),
           TaskShape(t), HasBlobs(t, stored'), Current(t),
           UNCHANGED <<store, listed, summaries, job>>,
           stored \subseteq stored', stored' \subseteq Messages,
           sessions' \in [Sessions -> Nat \cup {None}]
    PROVE  Inv'
<1>1. task' = [task EXCEPT ![c] = t] /\ task \in [Clients -> AnyTask] /\ t \in AnyTask
  BY DEF Inv, Shape, Continue, TaskShape
<1>2. Shape'
  BY <1>1 DEF Inv, Shape
<1>3. LoopHeld'
  BY LoopKept
<1>4. ASSUME NEW d \in Clients
      PROVE  (TaskShape(task[d]) /\ HasBlobs(task[d], stored) /\ Current(task[d]))'
  <2>1. task'[d] = t \/ task'[d] = task[d]
    BY <1>1
  <2>2. TaskShape(task'[d]) /\ HasBlobs(task'[d], stored') /\ Current(task'[d])
    BY <2>1 DEF Inv, HasBlobs
  <2> QED BY <2>2 DEF TaskShape, Current
<1>5. ASSUME NEW p \in Summarizers PROVE Read(job[p])'
  BY DEF Inv, Read
<1>6. SummaryCoversPrefix'
  BY DEF Inv, SummaryCoversPrefix, OnLocal
<1>7. (\A s \in Sessions : ToSet(listed[s]) \subseteq stored)'
  BY DEF Inv
<1> QED BY <1>2, <1>3, <1>4, <1>5, <1>6, <1>7 DEF Inv

LEMMA SummarizerMoves ==
    ASSUME Inv, NEW p \in Summarizers, NEW t, Turn(p, t), t \in AnyJob, Read(t),
           UNCHANGED <<vars, summaries>>
    PROVE  Inv'
<1>0. UNCHANGED <<store, sessions, listed, stored, journal, task, loop, summaries>>
  BY DEF vars
<1>1. job' = [job EXCEPT ![p] = t] /\ job \in [Summarizers -> AnyJob]
  BY DEF Inv, Shape, Turn
<1>2. Shape'
  BY <1>0, <1>1 DEF Inv, Shape
<1>3. ASSUME NEW q \in Summarizers PROVE Read(job[q])'
  <2>1. job'[q] = t \/ job'[q] = job[q]
    BY <1>1
  <2>2. Read(job'[q])
    BY <2>1 DEF Inv
  <2> QED BY <1>0, <2>2 DEF Read
<1>4. ASSUME NEW c \in Clients
      PROVE  (TaskShape(task[c]) /\ HasBlobs(task[c], stored) /\ Current(task[c]))'
  BY <1>0 DEF Inv, TaskShape, HasBlobs, Current
<1>5. LoopHeld' /\ SummaryCoversPrefix' /\ (\A s \in Sessions : ToSet(listed[s]) \subseteq stored)'
  BY <1>0 DEF Inv, LoopHeld, Released, SummaryCoversPrefix, OnLocal
<1> QED BY <1>2, <1>3, <1>4, <1>5 DEF Inv

LEMMA TaskFacts ==
    ASSUME Inv, NEW c \in Clients
    PROVE  /\ task[c] \in AnyTask
           /\ TaskShape(task[c]) /\ HasBlobs(task[c], stored) /\ Current(task[c])
           /\ task[c].ids \in Seq(Messages)
           /\ task[c].sessions \in [Sessions -> Nat \cup {None}]
BY DEF Inv, Shape, AnyTask

\* The common case: the store is left alone.
LEMMA PrivateMove ==
    ASSUME Inv, NEW c \in Clients, NEW t, Continue(c, t), Holds(c),
           TaskShape(t), HasBlobs(t, stored), Current(t),
           UNCHANGED shared, UNCHANGED summaryVars
    PROVE  Inv'
<1>1. UNCHANGED <<store, sessions, listed, stored, summaries, job>>
  BY DEF shared, summaryVars
<1>2. sessions' \in [Sessions -> Nat \cup {None}] /\ stored' \subseteq Messages
  BY <1>1 DEF Inv, Shape
<1> QED BY <1>1, <1>2, ClientMoves

LEMMA PrivateReturn ==
    ASSUME Inv, NEW c \in Clients, Return(c), Holds(c), UNCHANGED shared, UNCHANGED summaryVars
    PROVE  Inv'
BY PrivateMove, IdleIsSound DEF Return

-----------------------------------------------------------------------------
(* The clients' steps. *)

LEMMA Begins ==
    ASSUME Inv, NEW c \in Clients, UNCHANGED summaryVars,
           StartSession(c) \/ StartChat(c) \/ StartRead(c)
    PROVE  Inv'
<1>1. ASSUME NEW op \in {"start", "read"}, NEW pc \in {"load", "load_context"},
             NEW s \in Sessions
      PROVE  LET t == Begun(op, pc, s)
             IN  TaskShape(t) /\ HasBlobs(t, stored) /\ Current(t)
  <2>1. Begun(op, pc, s) \in AnyTask
    BY DEF Begun, AnyTask, AnyContext, NoSessions
  <2>2. ToSet(Begun(op, pc, s).ids) = {}
    BY DEF Begun, ToSet
  <2> QED BY <2>1, <2>2 DEF Begun, TaskShape, HasBlobs, Current
<1>2. CASE StartSession(c)
  BY <1>1, <1>2, PrivateMove DEF StartSession, At
<1>3. CASE StartRead(c)
  BY <1>1, <1>3, PrivateMove DEF StartRead, At
<1>4. CASE StartChat(c)
  <2>1. PICK s \in Sessions, prompt \in Messages, reply \in Messages :
            Continue(c, [Begun("chat", "load", s) EXCEPT
                !.prompt = prompt, !.reply = reply, !.adding = prompt])
    BY <1>4 DEF StartChat
  <2> DEFINE base == Begun("chat", "load", s)
             t == [base EXCEPT !.prompt = prompt, !.reply = reply, !.adding = prompt]
  <2>2. /\ base \in AnyTask /\ base.op = "chat" /\ base.pc = "load"
        /\ base.session = s /\ base.ids = <<>>
    BY DEF Begun, AnyTask, AnyContext, NoSessions
  <2> HIDE DEF base
  <2>3. /\ t \in AnyTask /\ t.op = "chat" /\ t.pc = "load" /\ t.session = s /\ t.ids = base.ids
        /\ t.prompt = prompt /\ t.reply = reply /\ t.adding = prompt
    BY <2>2 DEF AnyTask
  <2>4. ToSet(base.ids) = {}
    BY <2>2 DEF ToSet
  <2>5. TaskShape(t) /\ HasBlobs(t, stored) /\ Current(t)
    BY <2>3, <2>4 DEF TaskShape, HasBlobs, Current
  <2>6. Continue(c, t)
    BY <2>1 DEF base
  <2> HIDE DEF t
  <2> QED BY <1>4, <2>5, <2>6, PrivateMove DEF StartChat, At
<1> QED BY <1>2, <1>3, <1>4

\* Steps that change only where c is, and what it holds besides ids.
LEMMA Reads ==
    ASSUME Inv, NEW c \in Clients, UNCHANGED summaryVars,
           \/ LoadForStart(c) \/ LoadForAdd(c) \/ LoadForContext(c)
           \/ FetchMessages(c) \/ Reply(c) \/ CallFails(c)
    PROVE  Inv'
<1> USE TaskFacts
<1>1. Holds(c) /\ UNCHANGED shared
  BY DEF LoadForStart, LoadForAdd, LoadForContext, FetchMessages, Reply, CallFails, At
<1>2. CASE Return(c)
  BY <1>1, <1>2, PrivateReturn
<1>3. CASE LoadForStart(c)
  <2> DEFINE copy == [sessions EXCEPT ![task[c].session] = 0]
             t == [task[c] EXCEPT !.pc = "save", !.sessions = copy]
  <2>1. copy \in [Sessions -> Nat \cup {None}]
    BY DEF Inv, Shape
  <2> HIDE DEF copy
  <2>2. t \in AnyTask
    BY <2>1 DEF AnyTask
  <2>3. TaskShape(t) /\ HasBlobs(t, stored) /\ Current(t)
    BY <1>3, <2>2 DEF LoadForStart, At, TaskShape, HasBlobs, Current, AnyTask
  <2>4. Continue(c, t)
    BY <1>3 DEF LoadForStart, copy
  <2> HIDE DEF t
  <2> QED BY <1>1, <2>3, <2>4, PrivateMove
<1>4. CASE LoadForAdd(c) /\ ~Return(c)
  <2> DEFINE t == [task[c] EXCEPT !.pc = "put", !.sessions = sessions]
  <2>1. t \in AnyTask
    BY DEF AnyTask, Inv, Shape
  <2>2. TaskShape(t) /\ HasBlobs(t, stored) /\ Current(t)
    BY <1>4, <2>1 DEF LoadForAdd, At, TaskShape, HasBlobs, Current, AnyTask
  <2>3. Continue(c, t)
    BY <1>4 DEF LoadForAdd
  <2> HIDE DEF t
  <2> QED BY <1>1, <2>2, <2>3, PrivateMove
<1>5. CASE LoadForContext(c) /\ ~Return(c)
  <2> DEFINE t == [task[c] EXCEPT !.pc = "load_context_ids"]
  <2>1. t \in AnyTask
    BY DEF AnyTask
  <2>2. TaskShape(t) /\ HasBlobs(t, stored) /\ Current(t)
    BY <1>5, <2>1 DEF LoadForContext, At, TaskShape, HasBlobs, Current, AnyTask
  <2>3. Continue(c, t)
    BY <1>5 DEF LoadForContext, Goto
  <2> HIDE DEF t
  <2> QED BY <1>1, <2>2, <2>3, PrivateMove
<1>6. CASE FetchMessages(c) /\ ~Return(c)
  <2> DEFINE t == [task[c] EXCEPT !.pc = "llm", !.context = Selected(task[c].ids)]
  <2>1. t \in AnyTask
    BY DEF AnyTask, AnyContext
  <2>2. TaskShape(t) /\ HasBlobs(t, stored) /\ Current(t)
    BY <1>6, <2>1 DEF FetchMessages, At, TaskShape, HasBlobs, Current, AnyTask
  <2>3. Continue(c, t)
    BY <1>6 DEF FetchMessages
  <2> HIDE DEF t
  <2> QED BY <1>1, <2>2, <2>3, PrivateMove
<1>7. CASE Reply(c)
  <2> DEFINE empty == <<>>
             t == [task[c] EXCEPT !.pc = "load", !.adding = task[c].reply,
                                  !.ids = empty, !.context = empty]
  <2>1. empty \in Seq(Messages) /\ empty \in AnyContext /\ ToSet(empty) = {}
    BY DEF AnyContext, ToSet
  <2>2. Continue(c, t)
    BY <1>7 DEF Reply
  <2> HIDE DEF empty
  <2>3. /\ t \in AnyTask /\ t.pc = "load" /\ t.ids = empty /\ t.adding = task[c].reply
        /\ t.op = task[c].op /\ t.session = task[c].session
        /\ t.prompt = task[c].prompt /\ t.reply = task[c].reply
    BY <2>1 DEF AnyTask
  <2>4. TaskShape(t) /\ HasBlobs(t, stored) /\ Current(t)
    BY <1>7, <2>1, <2>3 DEF Reply, At, TaskShape, HasBlobs, Current
  <2> HIDE DEF t
  <2> QED BY <1>1, <2>2, <2>4, PrivateMove
<1> QED BY <1>2, <1>3, <1>4, <1>5, <1>6, <1>7 DEF CallFails

LEMMA SavesStart ==
    ASSUME Inv, NEW c \in Clients, UNCHANGED summaryVars, SaveStart(c)
    PROVE  Inv'
<1>1. UNCHANGED <<store, listed, stored, summaries, job>> /\ Continue(c, Idle) /\ Holds(c)
  BY DEF SaveStart, Return, At, summaryVars
<1>2. sessions' \in [Sessions -> Nat \cup {None}]
  BY TaskFacts DEF SaveStart
<1>3. stored \subseteq stored' /\ stored' \subseteq Messages
  BY <1>1 DEF Inv, Shape
<1>4. HasBlobs(Idle, stored')
  BY <1>1, IdleIsSound
<1> QED BY <1>1, <1>2, <1>3, <1>4, ClientMoves, IdleIsSound

LEMMA PutsMessage ==
    ASSUME Inv, NEW c \in Clients, UNCHANGED summaryVars, PutMessage(c)
    PROVE  Inv'
<1> USE TaskFacts
<1>1. /\ UNCHANGED <<store, sessions, listed, summaries, job>> /\ Holds(c)
      /\ task[c].pc = "put" /\ stored' = stored \cup {task[c].adding}
  BY DEF PutMessage, At, summaryVars
<1>2. task[c].adding \in Messages
  BY <1>1 DEF TaskShape
<1>3. stored \subseteq stored' /\ stored' \subseteq Messages
  BY <1>1, <1>2 DEF Inv, Shape
<1>4. sessions' \in [Sessions -> Nat \cup {None}]
  BY <1>1 DEF Inv, Shape
<1>5. CASE Continue(c, Idle)
  <2>1. HasBlobs(Idle, stored')
    BY <1>3, IdleIsSound DEF HasBlobs
  <2> QED BY <1>1, <1>3, <1>4, <1>5, <2>1, ClientMoves, IdleIsSound
<1>6. CASE Continue(c, Goto(c, "load_ids"))
  <2> DEFINE t == Goto(c, "load_ids")
  <2>1. t \in AnyTask
    BY DEF AnyTask, Goto
  <2>2. TaskShape(t) /\ HasBlobs(t, stored') /\ Current(t)
    BY <1>1, <1>3, <2>1 DEF TaskShape, HasBlobs, Current, AnyTask, Goto
  <2> HIDE DEF t
  <2> QED BY <1>1, <1>3, <1>4, <1>6, <2>2, ClientMoves DEF t
<1> QED BY <1>5, <1>6 DEF PutMessage, Written, Return

LEMMA LoadsIds ==
    ASSUME Inv, NEW c \in Clients, UNCHANGED summaryVars, LoadIds(c) \/ LoadContextIds(c)
    PROVE  Inv'
<1> USE TaskFacts
<1>1. Holds(c) /\ UNCHANGED shared /\ task[c].session \in Sessions
  BY DEF LoadIds, LoadContextIds, At, TaskShape
<1>2. listed[task[c].session] \in Seq(Messages) /\ ToSet(listed[task[c].session]) \subseteq stored
  BY <1>1 DEF Inv, Shape
<1>3. CASE LoadContextIds(c)
  <2> DEFINE ids == listed[task[c].session]
             t == [task[c] EXCEPT !.pc = "fetch", !.ids = ids]
  <2>1. Continue(c, t)
    BY <1>3 DEF LoadContextIds
  <2> HIDE DEF ids
  <2>2. t \in AnyTask /\ t.pc = "fetch" /\ t.ids = ids
    BY <1>2 DEF AnyTask, ids
  <2>3. TaskShape(t) /\ HasBlobs(t, stored) /\ Current(t)
    BY <1>1, <1>2, <2>2 DEF TaskShape, HasBlobs, Current, AnyTask, ids
  <2> HIDE DEF t
  <2> QED BY <1>1, <2>1, <2>3, PrivateMove
<1>4. CASE LoadIds(c)
  <2> DEFINE ids == Append(listed[task[c].session], task[c].adding)
             t == [task[c] EXCEPT !.pc = "save_ids", !.ids = ids]
  <2>1. Continue(c, t) /\ task[c].pc = "load_ids"
    BY <1>4 DEF LoadIds, At
  <2>2. task[c].adding \in Messages /\ task[c].adding \in stored /\ task[c].op = "chat"
    BY <2>1 DEF TaskShape, HasBlobs
  <2>3. ids \in Seq(Messages) /\ ToSet(ids) \subseteq stored
    BY <1>2, <2>2, AppendElements
  <2>4. ids = Append(listed[task[c].session], task[c].adding)
    OBVIOUS
  <2> HIDE DEF ids
  <2>5. /\ t \in AnyTask /\ t.pc = "save_ids" /\ t.ids = ids /\ t.op = task[c].op
        /\ t.session = task[c].session /\ t.adding = task[c].adding
        /\ t.prompt = task[c].prompt /\ t.reply = task[c].reply
    BY <2>3 DEF AnyTask
  <2>6. TaskShape(t) /\ HasBlobs(t, stored) /\ Current(t)
    BY <1>1, <2>2, <2>3, <2>4, <2>5 DEF TaskShape, HasBlobs, Current
  <2> HIDE DEF t
  <2> QED BY <1>1, <2>1, <2>6, PrivateMove
<1> QED BY <1>3, <1>4

LEMMA SavesSessions ==
    ASSUME Inv, NEW c \in Clients, UNCHANGED summaryVars, SaveSessions(c)
    PROVE  Inv'
<1> USE TaskFacts
<1>1. /\ UNCHANGED <<store, listed, stored, summaries, job>> /\ Holds(c)
      /\ task[c].op = "chat" /\ task[c].pc = "save" /\ task[c].session \in Sessions
      /\ sessions' = [task[c].sessions EXCEPT ![task[c].session] = Len(task[c].ids)]
  BY DEF SaveSessions, At, summaryVars, TaskShape
<1>2. sessions' \in [Sessions -> Nat \cup {None}]
  BY <1>1, LenProperties
<1>3. stored \subseteq stored' /\ stored' \subseteq Messages
  BY <1>1 DEF Inv, Shape
<1> DEFINE empty == <<>>
           After(t) == [t EXCEPT !.sessions = NoSessions, !.ids = empty]
<1>4. /\ empty \in Seq(Messages) /\ ToSet(empty) = {}
      /\ NoSessions \in [Sessions -> Nat \cup {None}]
  BY DEF ToSet, NoSessions
<1>5. \/ Continue(c, Idle)
      \/ Continue(c, After(Idle))
      \/ Continue(c, After(Goto(c, "load_context")))
  BY DEF SaveSessions, Return
<1> HIDE DEF empty
<1>6. ASSUME NEW t \in AnyTask, TaskShape(t), t.pc \in {"idle", "load_context"}
      PROVE  TaskShape(After(t)) /\ HasBlobs(After(t), stored') /\ Current(After(t))
  <2>1. /\ After(t) \in AnyTask /\ After(t).ids = empty /\ After(t).pc = t.pc
        /\ After(t).op = t.op /\ After(t).session = t.session /\ After(t).prompt = t.prompt
        /\ After(t).reply = t.reply /\ After(t).adding = t.adding
    BY <1>4 DEF AnyTask
  <2> QED BY <1>4, <1>6, <2>1 DEF TaskShape, HasBlobs, Current
<1>7. /\ Goto(c, "load_context") \in AnyTask /\ TaskShape(Goto(c, "load_context"))
      /\ Goto(c, "load_context").pc = "load_context"
  BY <1>1 DEF Goto, AnyTask, TaskShape
<1>8. Idle.pc = "idle"
  BY DEF Idle, Begun
<1>9. HasBlobs(Idle, stored')
  BY <1>1, IdleIsSound
<1> HIDE DEF After
<1> QED BY <1>1, <1>2, <1>3, <1>5, <1>6, <1>7, <1>8, <1>9, IdleIsSound, ClientMoves

\* The one step that changes an index: on the local store it only grows.
LEMMA SavesIds ==
    ASSUME Inv, NEW c \in Clients, UNCHANGED summaryVars, SaveIds(c)
    PROVE  Inv'
<1> USE TaskFacts
<1> DEFINE s == task[c].session
           ids == task[c].ids
           t == Goto(c, "save")
<1>1. /\ UNCHANGED <<store, sessions, stored, summaries, job>> /\ Holds(c)
      /\ task[c].pc = "save_ids" /\ s \in Sessions /\ task[c].adding \in Messages
      /\ listed' = [listed EXCEPT ![s] = ids]
  BY DEF SaveIds, At, summaryVars, TaskShape
<1>2. listed \in [Sessions -> Seq(Messages)] /\ task \in [Clients -> AnyTask]
  BY DEF Inv, Shape
<1>3. listed'[s] = ids /\ \A r \in Sessions \ {s} : listed'[r] = listed[r]
  BY <1>1, <1>2
<1>4. Continue(c, Idle) \/ Continue(c, t)
  BY DEF SaveIds, Written, Return
<1>5. /\ t \in AnyTask /\ TaskShape(t) /\ t.ids = ids /\ t.pc = "save"
  BY <1>1 DEF Goto, AnyTask, TaskShape
<1>6. PICK u \in {Idle, t} : Continue(c, u)
  BY <1>4
<1>7. /\ TaskShape(u) /\ u \in AnyTask /\ ToSet(u.ids) \subseteq stored
      /\ u.pc \in {"idle", "save"}
  BY <1>5, IdleIsSound DEF HasBlobs, Idle, Begun
<1>8. task' = [task EXCEPT ![c] = u]
  BY <1>6 DEF Continue
<1>9. store = "local" => ids = Append(listed[s], task[c].adding)
  BY <1>1 DEF Current
<1> HIDE DEF s, ids, t
<1>10. ids \in Seq(Messages) /\ ToSet(ids) \subseteq stored
  BY DEF ids, HasBlobs
<1>11. Shape'
  BY <1>1, <1>2, <1>7, <1>8, <1>10 DEF Inv, Shape
<1>12. (\A r \in Sessions : ToSet(listed[r]) \subseteq stored)'
  BY <1>1, <1>3, <1>10 DEF Inv
<1>13. ASSUME store = "local", NEW q \in Seq(Messages), NEW r \in Sessions,
              IsPrefix(q, listed[r])
       PROVE  IsPrefix(q, listed'[r])
  <2>1. CASE r = s
    <3>1. listed[s] \in Seq(Messages) /\ IsPrefix(q, listed[s]) /\ task[c].adding \in Messages
      BY <1>1, <1>2, <1>13, <2>1
    <3>2. IsPrefix(q, Append(listed[s], task[c].adding))
      BY <3>1, PrefixAppend
    <3> QED BY <1>3, <1>9, <1>13, <2>1, <3>2
  <2>2. CASE r # s
    BY <1>3, <1>13, <2>2
  <2> QED BY <2>1, <2>2
<1>14. ASSUME NEW p \in Summarizers PROVE Read(job[p])'
  <2>1. job[p].messages \in Seq(Messages) /\ job[p].merged \in Seq(Messages)
    BY DEF Inv, Shape, AnyJob
  <2>2. Read(job[p])
    BY DEF Inv
  <2>3. (job[p].pc # "idle" => job[p].session \in Sessions) /\ job'[p] = job[p]
    BY <1>1, <2>2 DEF Read
  <2> QED BY <1>1, <1>13, <2>1, <2>2, <2>3 DEF Read
<1>15. SummaryCoversPrefix'
  BY <1>1, <1>13 DEF Inv, Shape, SummaryCoversPrefix, OnLocal
<1>16. LoopHeld'
  BY <1>1, <1>6, LoopKept
<1>17. ASSUME NEW d \in Clients
       PROVE  (TaskShape(task[d]) /\ HasBlobs(task[d], stored) /\ Current(task[d]))'
  <2>1. CASE d = c
    <3>1. task'[d] = u
      BY <1>2, <1>8, <2>1
    <3> QED BY <1>1, <1>7, <3>1 DEF TaskShape, HasBlobs, Current
  <2>2. CASE d # c
    <3>1. task'[d] = task[d]
      BY <1>2, <1>8, <2>2
    <3>2. TaskShape(task[d]) /\ HasBlobs(task[d], stored)
      OBVIOUS
    <3>3. store = "local" => task[d].pc # "save_ids"
      BY <1>1, <2>2 DEF Inv, LoopHeld, Released
    <3> QED BY <1>1, <3>1, <3>2, <3>3 DEF TaskShape, HasBlobs, Current
  <2> QED BY <2>1, <2>2
<1> QED BY <1>11, <1>12, <1>14, <1>15, <1>16, <1>17 DEF Inv

LEMMA Crashes ==
    ASSUME Inv, UNCHANGED summaryVars, Crash
    PROVE  Inv'
<1>1. /\ UNCHANGED <<store, sessions, listed, stored, summaries, job>>
      /\ task' = [c \in Clients |-> Idle]
  BY DEF Crash, shared, summaryVars
<1>2. Shape'
  BY <1>1, IdleIsSound DEF Inv, Shape
<1>3. ASSUME NEW c \in Clients
      PROVE  (TaskShape(task[c]) /\ HasBlobs(task[c], stored) /\ Current(task[c]))'
  <2>1. task'[c] = Idle
    BY <1>1
  <2>2. TaskShape(task'[c]) /\ HasBlobs(task'[c], stored') /\ Current(task'[c])
    BY <1>1, <2>1, IdleIsSound
  <2>3. task'[c].pc # "save_ids"
    BY <2>1 DEF Idle, Begun
  <2> QED BY <2>2, <2>3 DEF TaskShape, HasBlobs, Current
<1>4. LoopHeld'
  BY <1>1, IdleIsSound DEF LoopHeld, Released
<1>5. (\A p \in Summarizers : Read(job[p]))' /\ SummaryCoversPrefix'
  BY <1>1 DEF Inv, Read, SummaryCoversPrefix, OnLocal
<1> QED BY <1>1, <1>2, <1>3, <1>4, <1>5 DEF Inv

-----------------------------------------------------------------------------
(* The summarizers' steps. *)

LEMMA JobFacts ==
    ASSUME Inv, NEW p \in Summarizers
    PROVE  /\ job[p] \in AnyJob /\ Read(job[p])
           /\ job[p].messages \in Seq(Messages) /\ job[p].merged \in Seq(Messages)
BY DEF Inv, Shape, AnyJob

LEMMA NoJobIsSound == NoJob \in AnyJob /\ Read(NoJob)
BY DEF NoJob, AnyJob, Read

LEMMA SummarizerSteps ==
    ASSUME Inv, NEW p \in Summarizers, UNCHANGED <<vars, summaries>>,
           \/ StartSummarize(p) \/ ReadSession(p) \/ ReadMessages(p)
           \/ LoadSummary(p) \/ SummarizeFails(p)
    PROVE  Inv'
<1> USE JobFacts
<1>1. CASE Turn(p, NoJob)
  BY <1>1, NoJobIsSound, SummarizerMoves
<1>2. CASE StartSummarize(p)
  <2>1. PICK s \in Sessions, force \in BOOLEAN :
            Turn(p, [NoJob EXCEPT !.pc = "session", !.session = s, !.force = force])
    BY <1>2 DEF StartSummarize
  <2> DEFINE t == [NoJob EXCEPT !.pc = "session", !.session = s, !.force = force]
  <2>2. t \in AnyJob /\ t.pc = "session" /\ t.session = s
    BY NoJobIsSound DEF AnyJob
  <2>3. Read(t)
    BY <2>2 DEF Read
  <2>4. Turn(p, t)
    BY <2>1
  <2> HIDE DEF t
  <2> QED BY <2>2, <2>3, <2>4, SummarizerMoves
<1>3. CASE ReadSession(p) /\ ~Turn(p, NoJob)
  <2> DEFINE t == [job[p] EXCEPT !.pc = "messages"]
  <2>1. t \in AnyJob /\ Read(t) /\ Turn(p, t)
    BY <1>3 DEF ReadSession, Finish, AnyJob, Read
  <2> HIDE DEF t
  <2> QED BY <2>1, SummarizerMoves
<1>4. CASE ReadMessages(p) /\ ~Turn(p, NoJob)
  <2> DEFINE ids == listed[job[p].session]
             t == [job[p] EXCEPT !.pc = "load", !.messages = ids]
  <2>1. Turn(p, t) /\ job[p].pc = "messages"
    BY <1>4 DEF ReadMessages, Finish
  <2>2. job[p].session \in Sessions
    BY <2>1 DEF Read
  <2>3. ids \in Seq(Messages)
    BY <2>2 DEF Inv, Shape
  <2>4. IsPrefix(ids, ids)
    BY <2>3, PrefixReflexive
  <2>5. ids = listed[job[p].session]
    OBVIOUS
  <2> HIDE DEF ids
  <2>6. t \in AnyJob /\ t.pc = "load" /\ t.messages = ids /\ t.session = job[p].session
    BY <2>3 DEF AnyJob
  <2>7. Read(t)
    BY <2>2, <2>4, <2>5, <2>6 DEF Read
  <2> HIDE DEF t
  <2> QED BY <2>1, <2>6, <2>7, SummarizerMoves
<1>5. CASE LoadSummary(p) /\ ~Turn(p, NoJob)
  <2> DEFINE s == job[p].session
             earlier == summaries[s]
             messages == job[p].messages
  <2>1. job[p].pc = "load" /\ s \in Sessions /\ messages \in Seq(Messages)
    BY <1>5 DEF LoadSummary, Read
  <2>2. PICK merged \in {messages, Extended(earlier, messages)} :
            /\ Turn(p, [job[p] EXCEPT !.pc = "save", !.messages = <<>>, !.merged = merged])
            /\ \/ merged = messages
               \/ /\ earlier # None /\ merged = Extended(earlier, messages)
                  /\ Len(messages) > Len(earlier)
    BY <1>5 DEF LoadSummary, Finish
  <2>3. listed[s] \in Seq(Messages) /\ earlier \in Seq(Messages) \cup {None}
    BY <2>1 DEF Inv, Shape
  <2>4. merged \in Seq(Messages)
    <3>1. CASE merged = messages
      BY <2>1, <3>1
    <3>2. CASE earlier \in Seq(Messages) /\ merged = Extended(earlier, messages)
      BY <2>1, <3>2, LenProperties DEF Extended
    <3> QED BY <2>2, <2>3, <3>1, <3>2
  <2>5. store = "local" => merged = messages /\ IsPrefix(messages, listed[s])
    <3>1. SUFFICES ASSUME store = "local"
                   PROVE  merged = messages /\ IsPrefix(messages, listed[s])
      OBVIOUS
    <3>2. IsPrefix(messages, listed[s])
      BY <2>1, <3>1 DEF Read
    <3>3. earlier # None => IsPrefix(earlier, listed[s])
      BY <2>1, <3>1 DEF Inv, SummaryCoversPrefix, OnLocal
    <3> QED BY <2>1, <2>2, <2>3, <3>2, <3>3, ExtendedIsLonger
  <2> DEFINE empty == <<>>
             t == [job[p] EXCEPT !.pc = "save", !.messages = empty, !.merged = merged]
  <2>6. Turn(p, t) /\ empty \in Seq(Messages)
    BY <2>2
  <2> HIDE DEF empty
  <2>7. t \in AnyJob /\ t.pc = "save" /\ t.merged = merged /\ t.session = s
    BY <2>4, <2>6 DEF AnyJob
  <2>8. Read(t)
    BY <2>1, <2>5, <2>7 DEF Read
  <2> HIDE DEF t
  <2> QED BY <2>6, <2>7, <2>8, SummarizerMoves
<1> QED BY <1>1, <1>2, <1>3, <1>4, <1>5 DEF SummarizeFails, Finish

LEMMA SavesSummary ==
    ASSUME Inv, NEW p \in Summarizers, SaveSummary(p)
    PROVE  Inv'
<1> USE JobFacts
<1>1. /\ UNCHANGED <<store, sessions, listed, stored, task, loop>>
      /\ job' = [job EXCEPT ![p] = NoJob] /\ job[p].pc = "save" /\ job[p].session \in Sessions
      /\ summaries' = [summaries EXCEPT ![job[p].session] = job[p].merged]
  BY DEF SaveSummary, vars, Finish, Turn, Read
<1>2. Shape'
  BY <1>1, NoJobIsSound DEF Inv, Shape
<1>3. SummaryCoversPrefix'
  <2>1. store = "local" => IsPrefix(job[p].merged, listed[job[p].session])
    BY <1>1 DEF Read
  <2> QED BY <1>1, <2>1 DEF Inv, Shape, SummaryCoversPrefix, OnLocal
<1>4. ASSUME NEW q \in Summarizers PROVE Read(job[q])'
  <2>1. job'[q] = NoJob \/ job'[q] = job[q]
    BY <1>1 DEF Inv, Shape
  <2>2. Read(job'[q])
    BY <2>1, NoJobIsSound
  <2> QED BY <1>1, <2>2 DEF Read
<1>5. (\A c \in Clients : TaskShape(task[c]) /\ HasBlobs(task[c], stored) /\ Current(task[c]))'
  BY <1>1 DEF Inv, TaskShape, HasBlobs, Current
<1>6. LoopHeld' /\ (\A s \in Sessions : ToSet(listed[s]) \subseteq stored)'
  BY <1>1 DEF Inv, LoopHeld, Released
<1> QED BY <1>2, <1>3, <1>4, <1>5, <1>6 DEF Inv

-----------------------------------------------------------------------------
(* The theorems. *)

LEMMA Initially == SummariesInit => Inv
<1> SUFFICES ASSUME SummariesInit PROVE Inv
  OBVIOUS
<1> USE DEF SummariesInit, Init
<1>1. Shape
  BY IdleIsSound, NoJobIsSound DEF Shape, NoSessions
<1>2. \A s \in Sessions : ToSet(listed[s]) = {}
  BY DEF ToSet
<1>3. \A c \in Clients : TaskShape(task[c]) /\ HasBlobs(task[c], stored) /\ Current(task[c])
  BY IdleIsSound
<1>4. LoopHeld
  BY IdleIsSound DEF LoopHeld
<1>5. \A p \in Summarizers : Read(job[p])
  BY NoJobIsSound
<1>6. SummaryCoversPrefix
  BY DEF SummaryCoversPrefix, OnLocal, NoSessions
<1> QED BY <1>1, <1>2, <1>3, <1>4, <1>5, <1>6 DEF Inv

LEMMA Consecution == Inv /\ [SummariesNext]_<<vars, summaryVars>> => Inv'
<1> SUFFICES ASSUME Inv, [SummariesNext]_<<vars, summaryVars>> PROVE Inv'
  OBVIOUS
<1>1. ASSUME NEW c \in Clients, Step(c), UNCHANGED summaryVars PROVE Inv'
  BY <1>1, Begins, Reads, SavesStart, PutsMessage, LoadsIds, SavesIds, SavesSessions DEF Step
<1>2. CASE Crash /\ UNCHANGED summaryVars
  BY <1>2, Crashes
<1>3. ASSUME NEW p \in Summarizers, Summarize(p) PROVE Inv'
  <2>1. CASE SaveSummary(p)
    BY <2>1, SavesSummary
  <2>2. CASE ~SaveSummary(p)
    <3>1. UNCHANGED <<vars, summaries>>
      BY <1>3, <2>2
         DEF Summarize, StartSummarize, ReadSession, ReadMessages, LoadSummary, SummarizeFails
    <3> QED BY <1>3, <2>2, <3>1, SummarizerSteps DEF Summarize
  <2> QED BY <2>1, <2>2
<1>4. CASE UNCHANGED <<vars, summaryVars>>
  BY <1>4 DEF vars, summaryVars, Inv, Shape, TaskShape, HasBlobs, Current, LoopHeld, Released,
              Read, SummaryCoversPrefix, OnLocal
<1> QED BY <1>1, <1>2, <1>3, <1>4 DEF SummariesNext, Next

\* Inv holds in every reachable state: who holds an id has its blob, who holds a
\* copy of an index to write back has the loop, and what a summarizer has read is
\* a prefix of the index.
THEOREM Invariance == SummariesSpec => []Inv
BY Initially, Consecution, PTL DEF SummariesSpec

\* However exchanges, readers and failures interleave, on either store, an id in
\* a session's index, and in a copy about to replace it, is that of a stored
\* message: get_messages() always finds what it is told to fetch.
THEOREM ListedAlwaysStored == SummariesSpec => []ListedMessagesStored
<1>1. Inv => ListedMessagesStored
  BY DEF Inv, HasBlobs, ListedMessagesStored
<1> QED BY <1>1, Invariance, PTL

\* On the local store, however many summarizers run beside the exchanges, a
\* summary is made of the first messages of its session, each once.
THEOREM SummariesAlwaysCoverPrefix == SummariesSpec => []SummaryCoversPrefix
<1>1. Inv => SummaryCoversPrefix
  BY DEF Inv
<1> QED BY <1>1, Invariance, PTL

-----------------------------------------------------------------------------
(* What the local store promises to a call that has returned, and to the model. *)

EndsWith(s, m) == s # <<>> /\ Last(s) = m

\* On the local store, what the locals of an operation have to do with the session
\* list ss and the indexes ls.
Sound(t, ss, ls) ==
    /\ t.pc \in {"put", "load_ids", "save_ids", "save"} =>
        \A s \in Sessions : ss[s] # None => t.sessions[s] # None
    /\ t.pc = "save" /\ t.op = "start" => t.sessions[t.session] # None
    /\ t.pc = "save" /\ t.op = "chat" => EndsWith(ls[t.session], t.adding)
    /\ t.pc \in {"load_context", "load_context_ids"} /\ t.op = "chat" =>
        EndsWith(ls[t.session], t.prompt)
    /\ t.pc = "fetch" /\ t.op = "chat" => EndsWith(t.ids, t.prompt)
    /\ t.pc = "llm" => EndsWith(t.context, t.prompt)

Acknowledged(entries, ss, ls) ==
    \A s \in Sessions :
        /\ <<"start", s>> \in entries => ss[s] # None
        /\ \A m \in Messages : <<"add", s, m>> \in entries => m \in ToSet(ls[s])

LocalInv ==
    store = "local" =>
        /\ Acknowledged(journal, sessions, listed)
        /\ \A c \in Clients : Sound(task[c], sessions, listed)

LEMMA AppendEndsWith ==
    ASSUME NEW s \in Seq(Messages), NEW m \in Messages
    PROVE  EndsWith(Append(s, m), m)
<1>1. Len(Append(s, m)) = Len(s) + 1 /\ Append(s, m)[Len(s) + 1] = m /\ Len(s) \in Nat
  OBVIOUS
<1>2. Append(s, m) # <<>>
  BY <1>1
<1> QED BY <1>1, <1>2 DEF EndsWith, Last

Below == {p \in Nat \X Nat : p[1] < p[2]}

\* build_context() takes the newest message, and what it takes ends with it.
LEMMA SelectedEndsWith ==
    ASSUME NEW ids \in Seq(Messages), NEW m, EndsWith(ids, m)
    PROVE  EndsWith(Selected(ids), m)
<1>1. Len(ids) \in Nat /\ Len(ids) > 0 /\ ids[Len(ids)] = m
  BY DEF EndsWith, Last
<1> DEFINE Full(k) == k = Len(ids) \/ (k > 0 /\ Used(ids)[k + 1] > Budget)
           S == {k \in 0 .. Len(ids) : Full(k)}
<1>2. Len(ids) \in S /\ S \subseteq Nat /\ 0 \notin S
  BY <1>1
<1>3. IsWellFoundedOn(Below, Nat)
  BY NatLessThanWellFounded DEF OpToRel, Below
<1>4. PICK n \in S : \A j \in S : ~(<<j, n>> \in Below)
  <2> HIDE DEF S
  <2> QED BY <1>2, <1>3, WFMin
<1>5. \A j \in S : ~(j < n)
  BY <1>2, <1>4 DEF Below
<1>6. n \in 0 .. Len(ids) /\ Full(n) /\ \A j \in 0 .. n - 1 : ~Full(j)
  <2>1. n \in 0 .. Len(ids) /\ Full(n)
    OBVIOUS
  <2>2. ASSUME NEW j \in 0 .. n - 1
        PROVE  ~Full(j)
    <3>1. j \in 0 .. Len(ids) /\ j < n
      BY <1>1, <2>1
    <3>2. j \notin S
      BY <1>5, <3>1
    <3> QED BY <3>1, <3>2
  <2> QED BY <2>1, <2>2
<1> DEFINE k == CHOOSE q \in 0 .. Len(ids) : Full(q) /\ \A j \in 0 .. q - 1 : ~Full(j)
<1>7. k \in 0 .. Len(ids) /\ Full(k)
  <2> HIDE DEF Full
  <2> QED BY <1>6
<1>8. k > 0
  <2> HIDE DEF k
  <2> QED BY <1>1, <1>7
<1>9. Selected(ids) = SubSeq(ids, Len(ids) - k + 1, Len(ids))
  BY DEF Selected
<1> HIDE DEF k, Full, S
<1>10. k \in 1 .. Len(ids)
  BY <1>1, <1>7, <1>8
<1> DEFINE first == Len(ids) - k + 1
<1>11. first \in 1 .. Len(ids)
  BY <1>1, <1>10
<1>12. /\ Len(SubSeq(ids, first, Len(ids))) = Len(ids) - first + 1
       /\ \A i \in 1 .. Len(ids) - first + 1 : SubSeq(ids, first, Len(ids))[i] = ids[first + i - 1]
  <2> HIDE DEF first
  <2> QED BY <1>1, <1>11, SubSeqProperties
<1> HIDE DEF first
<1> DEFINE q == SubSeq(ids, first, Len(ids))
           last == Len(ids) - first + 1
<1>13. last \in 1 .. Len(ids) - first + 1 /\ first + last - 1 = Len(ids)
  BY <1>1, <1>11
<1>14. q[last] = ids[Len(ids)] /\ Len(q) = last
  BY <1>12, <1>13
<1>15. q # <<>>
  BY <1>1, <1>11, <1>12
<1>16. EndsWith(q, m)
  BY <1>1, <1>14, <1>15 DEF EndsWith, Last
<1> QED BY <1>9, <1>16 DEF first

\* While a client keeps the loop, no other one is between two storage calls.
LEMMA OthersReleased ==
    ASSUME Inv, store = "local", NEW c \in Clients, Holds(c), NEW d \in Clients, d # c
    PROVE  Released(task[d])
BY NoneAssumption DEF Inv, LoopHeld, Holds

LEMMA IdleSound ==
    ASSUME NEW ss, NEW ls
    PROVE  Sound(Idle, ss, ls)
BY DEF Sound, Idle, Begun

LEMMA LocalMove ==
    ASSUME Inv, LocalInv, NEW c \in Clients, NEW t, Continue(c, t), Holds(c), store' = store,
           store = "local" =>
               Acknowledged(journal', sessions', listed') /\ Sound(t, sessions', listed')
    PROVE  LocalInv'
<1> SUFFICES ASSUME store = "local"
             PROVE  /\ Acknowledged(journal', sessions', listed')
                    /\ \A d \in Clients : Sound(task'[d], sessions', listed')
  BY DEF LocalInv
<1>1. task' = [task EXCEPT ![c] = t] /\ task \in [Clients -> AnyTask]
  BY DEF Inv, Shape, Continue
<1>2. ASSUME NEW d \in Clients
      PROVE  Sound(task'[d], sessions', listed')
  <2>1. CASE d = c
    BY <1>1, <2>1
  <2>2. CASE d # c
    <3>1. task'[d] = task[d]
      BY <1>1, <2>2
    <3>2. Released(task[d]) /\ Sound(task[d], sessions, listed)
      BY <2>2, OthersReleased DEF LocalInv
    <3> QED BY <3>1, <3>2 DEF Sound, Released
  <2> QED BY <2>1, <2>2
<1> QED BY <1>2

LEMMA LocalReturn ==
    ASSUME Inv, LocalInv, NEW c \in Clients, Return(c), Holds(c), UNCHANGED shared
    PROVE  LocalInv'
<1>1. UNCHANGED <<store, sessions, listed, journal>> /\ Continue(c, Idle)
  BY DEF shared, Return
<1>2. store = "local" =>
        Acknowledged(journal', sessions', listed') /\ Sound(Idle, sessions', listed')
  BY <1>1, IdleSound DEF LocalInv
<1> QED BY <1>1, <1>2, LocalMove

\* The store is left alone; t is what the client becomes.
LEMMA LocalPrivate ==
    ASSUME Inv, LocalInv, NEW c \in Clients, NEW t, Continue(c, t), Holds(c),
           UNCHANGED <<store, sessions, listed, journal>>,
           store = "local" => Sound(t, sessions, listed)
    PROVE  LocalInv'
<1>1. store = "local" =>
        Acknowledged(journal', sessions', listed') /\ Sound(t, sessions', listed')
  BY DEF LocalInv
<1> QED BY <1>1, LocalMove

LEMMA LocalBegins ==
    ASSUME Inv, LocalInv, NEW c \in Clients, StartSession(c) \/ StartChat(c) \/ StartRead(c)
    PROVE  LocalInv'
<1>1. Holds(c) /\ UNCHANGED <<store, sessions, listed, journal>>
  BY DEF StartSession, StartChat, StartRead, At, shared
<1>2. \E t : /\ Continue(c, t)
             /\ t.pc = "load" \/ (t.pc = "load_context" /\ t.op = "read")
  <2>1. CASE StartSession(c)
    BY <2>1 DEF StartSession, Begun
  <2>2. CASE StartRead(c)
    BY <2>2 DEF StartRead, Begun
  <2>3. CASE StartChat(c)
    <3>1. PICK s \in Sessions, prompt \in Messages, reply \in Messages :
              Continue(c, [Begun("chat", "load", s) EXCEPT
                  !.prompt = prompt, !.reply = reply, !.adding = prompt])
      BY <2>3 DEF StartChat
    <3> DEFINE t == [Begun("chat", "load", s) EXCEPT
                        !.prompt = prompt, !.reply = reply, !.adding = prompt]
    <3>2. t.pc = "load" /\ Continue(c, t)
      BY <3>1 DEF Begun
    <3> QED BY <3>2
  <2> QED BY <2>1, <2>2, <2>3
<1>3. PICK t : /\ Continue(c, t)
               /\ t.pc = "load" \/ (t.pc = "load_context" /\ t.op = "read")
  BY <1>2
<1>4. Sound(t, sessions, listed)
  BY <1>3 DEF Sound
<1> QED BY <1>1, <1>3, <1>4, LocalPrivate

LEMMA LocalReads ==
    ASSUME Inv, LocalInv, NEW c \in Clients,
           \/ LoadForStart(c) \/ LoadForAdd(c) \/ LoadForContext(c) \/ LoadIds(c)
           \/ LoadContextIds(c) \/ FetchMessages(c) \/ Reply(c) \/ CallFails(c)
    PROVE  LocalInv'
<1> USE TaskFacts
<1>1. Holds(c) /\ UNCHANGED shared /\ UNCHANGED <<store, sessions, listed, journal>>
  BY DEF LoadForStart, LoadForAdd, LoadForContext, LoadIds, LoadContextIds, FetchMessages, Reply,
         CallFails, At, shared
<1>2. store = "local" => Sound(task[c], sessions, listed)
  BY DEF LocalInv
<1>3. CASE Return(c)
  BY <1>1, <1>3, LocalReturn
<1>4. CASE LoadForStart(c)
  <2> DEFINE copy == [sessions EXCEPT ![task[c].session] = 0]
             t == [task[c] EXCEPT !.pc = "save", !.sessions = copy]
  <2>1. Continue(c, t) /\ task[c].op = "start" /\ task[c].pc = "load"
    BY <1>4 DEF LoadForStart, At
  <2>2. task[c].session \in Sessions /\ 0 # None
    BY <2>1, NoneAssumption DEF TaskShape
  <2>3. /\ copy[task[c].session] # None
        /\ \A s \in Sessions : sessions[s] # None => copy[s] # None
    BY <2>2 DEF Inv, Shape
  <2> HIDE DEF copy
  <2>4. t.pc = "save" /\ t.sessions = copy /\ t.op = "start" /\ t.session = task[c].session
    BY <2>1 DEF AnyTask
  <2> HIDE DEF t
  <2>5. Sound(t, sessions, listed)
    BY <2>3, <2>4 DEF Sound
  <2> QED BY <1>1, <2>1, <2>5, LocalPrivate
<1>5. CASE LoadForAdd(c) /\ ~Return(c)
  <2> DEFINE t == [task[c] EXCEPT !.pc = "put", !.sessions = sessions]
  <2>1. Continue(c, t)
    BY <1>5 DEF LoadForAdd
  <2>2. t.pc = "put" /\ t.sessions = sessions
    BY DEF AnyTask
  <2> HIDE DEF t
  <2>3. Sound(t, sessions, listed)
    BY <2>2 DEF Sound
  <2> QED BY <1>1, <2>1, <2>3, LocalPrivate
<1>6. CASE LoadForContext(c) /\ ~Return(c)
  <2> DEFINE t == [task[c] EXCEPT !.pc = "load_context_ids"]
  <2>1. Continue(c, t) /\ task[c].pc = "load_context"
    BY <1>6 DEF LoadForContext, Goto, At
  <2>2. /\ t.pc = "load_context_ids" /\ t.op = task[c].op /\ t.session = task[c].session
        /\ t.prompt = task[c].prompt
    BY DEF AnyTask
  <2> HIDE DEF t
  <2>3. store = "local" => Sound(t, sessions, listed)
    BY <1>2, <2>1, <2>2 DEF Sound
  <2> QED BY <1>1, <2>1, <2>3, LocalPrivate
<1>7. CASE LoadIds(c)
  <2> DEFINE ids == Append(listed[task[c].session], task[c].adding)
             t == [task[c] EXCEPT !.pc = "save_ids", !.ids = ids]
  <2>1. Continue(c, t) /\ task[c].pc = "load_ids"
    BY <1>7 DEF LoadIds, At
  <2> HIDE DEF ids
  <2>2. t.pc = "save_ids" /\ t.sessions = task[c].sessions
    BY DEF AnyTask
  <2> HIDE DEF t
  <2>3. store = "local" => Sound(t, sessions, listed)
    BY <1>2, <2>1, <2>2 DEF Sound
  <2> QED BY <1>1, <2>1, <2>3, LocalPrivate
<1>8. CASE LoadContextIds(c)
  <2> DEFINE ids == listed[task[c].session]
             t == [task[c] EXCEPT !.pc = "fetch", !.ids = ids]
  <2>1. Continue(c, t) /\ task[c].pc = "load_context_ids"
    BY <1>8 DEF LoadContextIds, At
  <2>2. ids = listed[task[c].session]
    OBVIOUS
  <2> HIDE DEF ids
  <2>3. t.pc = "fetch" /\ t.ids = ids /\ t.op = task[c].op /\ t.prompt = task[c].prompt
    BY DEF AnyTask
  <2> HIDE DEF t
  <2>4. store = "local" => Sound(t, sessions, listed)
    BY <1>2, <2>1, <2>2, <2>3 DEF Sound
  <2> QED BY <1>1, <2>1, <2>4, LocalPrivate
<1>9. CASE FetchMessages(c) /\ ~Return(c)
  <2> DEFINE chosen == Selected(task[c].ids)
             t == [task[c] EXCEPT !.pc = "llm", !.context = chosen]
  <2>1. Continue(c, t) /\ task[c].pc = "fetch" /\ task[c].op = "chat"
    BY <1>9 DEF FetchMessages, At
  <2>2. store = "local" => EndsWith(chosen, task[c].prompt)
    BY <1>2, <2>1, SelectedEndsWith DEF Sound
  <2> HIDE DEF chosen
  <2>3. t.pc = "llm" /\ t.context = chosen /\ t.prompt = task[c].prompt
    BY DEF AnyTask
  <2> HIDE DEF t
  <2>4. store = "local" => Sound(t, sessions, listed)
    BY <2>2, <2>3 DEF Sound
  <2> QED BY <1>1, <2>1, <2>4, LocalPrivate
<1>10. CASE Reply(c)
  <2> DEFINE empty == <<>>
             t == [task[c] EXCEPT !.pc = "load", !.adding = task[c].reply,
                                  !.ids = empty, !.context = empty]
  <2>1. Continue(c, t)
    BY <1>10 DEF Reply
  <2> HIDE DEF empty
  <2>2. t.pc = "load"
    BY DEF AnyTask
  <2> HIDE DEF t
  <2>3. Sound(t, sessions, listed)
    BY <2>2 DEF Sound
  <2> QED BY <1>1, <2>1, <2>3, LocalPrivate
<1> QED BY <1>3, <1>4, <1>5, <1>6, <1>7, <1>8, <1>9, <1>10 DEF CallFails

LEMMA LocalPuts ==
    ASSUME Inv, LocalInv, NEW c \in Clients, PutMessage(c)
    PROVE  LocalInv'
<1> USE TaskFacts
<1>1. /\ UNCHANGED <<store, sessions, listed, journal>> /\ Holds(c) /\ task[c].pc = "put"
      /\ Continue(c, Idle) \/ Continue(c, Goto(c, "load_ids"))
  BY DEF PutMessage, At, Written, Return
<1>2. CASE Continue(c, Idle)
  <2>1. Sound(Idle, sessions, listed)
    BY IdleSound
  <2> QED BY <1>1, <1>2, <2>1, LocalPrivate
<1>3. CASE Continue(c, Goto(c, "load_ids"))
  <2> DEFINE t == Goto(c, "load_ids")
  <2>1. Continue(c, t)
    BY <1>3
  <2>2. t.pc = "load_ids" /\ t.sessions = task[c].sessions
    BY DEF AnyTask, Goto
  <2> HIDE DEF t
  <2>3. store = "local" => Sound(t, sessions, listed)
    BY <1>1, <2>2 DEF Sound, LocalInv
  <2> QED BY <1>1, <2>1, <2>3, LocalPrivate
<1> QED BY <1>1, <1>2, <1>3

\* The copy of the session list has every session of the list, and the new one.
LEMMA LocalSavesStart ==
    ASSUME Inv, LocalInv, NEW c \in Clients, SaveStart(c)
    PROVE  LocalInv'
<1> USE TaskFacts
<1>1. /\ store' = store /\ listed' = listed /\ Holds(c) /\ Continue(c, Idle)
      /\ task[c].pc = "save" /\ task[c].op = "start" /\ task[c].session \in Sessions
      /\ sessions' = task[c].sessions
      /\ journal' = journal \cup {<<"start", task[c].session>>} \/ journal' = journal
  BY DEF SaveStart, At, Return, TaskShape
<1>2. ASSUME store = "local"
      PROVE  Acknowledged(journal', sessions', listed')
  <2>1. Acknowledged(journal, sessions, listed) /\ Sound(task[c], sessions, listed)
    BY <1>2 DEF LocalInv
  <2>2. ASSUME NEW s \in Sessions, <<"start", s>> \in journal'
        PROVE  sessions'[s] # None
    <3>1. CASE <<"start", s>> \in journal
      BY <1>1, <2>1, <3>1 DEF Acknowledged, Sound
    <3>2. CASE <<"start", s>> = <<"start", task[c].session>>
      BY <1>1, <2>1, <3>2 DEF Sound
    <3> QED BY <1>1, <2>2, <3>1, <3>2
  <2>3. ASSUME NEW s \in Sessions, NEW m \in Messages, <<"add", s, m>> \in journal'
        PROVE  m \in ToSet(listed'[s])
    <3>1. <<"add", s, m>> \in journal
      BY <1>1, <2>3
    <3> QED BY <1>1, <2>1, <3>1 DEF Acknowledged
  <2> QED BY <2>2, <2>3 DEF Acknowledged
<1> QED BY <1>1, <1>2, IdleSound, LocalMove

\* The index that is written is the index there is and the new message.
LEMMA LocalSavesIds ==
    ASSUME Inv, LocalInv, NEW c \in Clients, SaveIds(c)
    PROVE  LocalInv'
<1> USE TaskFacts
<1> DEFINE s == task[c].session
           m == task[c].adding
<1>1. /\ store' = store /\ sessions' = sessions /\ journal' = journal /\ Holds(c)
      /\ task[c].pc = "save_ids" /\ task[c].op = "chat" /\ s \in Sessions /\ m \in Messages
      /\ listed' = [listed EXCEPT ![s] = task[c].ids]
      /\ Continue(c, Idle) \/ Continue(c, Goto(c, "save"))
  BY DEF SaveIds, At, Written, Return, TaskShape
<1>2. listed \in [Sessions -> Seq(Messages)]
  BY DEF Inv, Shape
<1>3. store = "local" => listed'[s] = Append(listed[s], m)
  BY <1>1, <1>2 DEF Current
<1>4. \A r \in Sessions : r # s => listed'[r] = listed[r]
  BY <1>1, <1>2
<1> HIDE DEF s, m
<1>5. ASSUME store = "local"
      PROVE  Acknowledged(journal', sessions', listed')
  <2>1. Acknowledged(journal, sessions, listed)
    BY <1>5 DEF LocalInv
  <2>2. ToSet(listed'[s]) = ToSet(listed[s]) \cup {m}
    BY <1>1, <1>2, <1>3, <1>5, AppendElements
  <2>3. \A r \in Sessions : ToSet(listed[r]) \subseteq ToSet(listed'[r])
    BY <1>4, <2>2
  <2> QED BY <1>1, <2>1, <2>3 DEF Acknowledged
<1>6. CASE Continue(c, Idle)
  BY <1>1, <1>5, <1>6, IdleSound, LocalMove
<1>7. CASE Continue(c, Goto(c, "save"))
  <2> DEFINE t == Goto(c, "save")
  <2>1. Continue(c, t)
    BY <1>7
  <2>2. /\ t.pc = "save" /\ t.sessions = task[c].sessions /\ t.op = "chat" /\ t.session = s
        /\ t.adding = m
    BY <1>1 DEF AnyTask, Goto, s, m
  <2> HIDE DEF t
  <2>3. store = "local" => EndsWith(listed'[s], m)
    BY <1>1, <1>2, <1>3, AppendEndsWith
  <2>4. store = "local" => Sound(t, sessions', listed')
    BY <1>1, <2>2, <2>3 DEF Sound, LocalInv
  <2> QED BY <1>1, <1>5, <2>1, <2>4, LocalMove
<1> QED BY <1>1, <1>6, <1>7

LEMMA LocalSavesSessions ==
    ASSUME Inv, LocalInv, NEW c \in Clients, SaveSessions(c)
    PROVE  LocalInv'
<1> USE TaskFacts
<1> DEFINE s == task[c].session
           m == task[c].adding
           copy == task[c].sessions
           count == Len(task[c].ids)
<1>1. /\ store' = store /\ listed' = listed /\ Holds(c)
      /\ task[c].pc = "save" /\ task[c].op = "chat" /\ s \in Sessions /\ m \in Messages
      /\ sessions' = [copy EXCEPT ![s] = count]
      /\ journal' = journal \cup {<<"add", s, m>>} \/ journal' = journal
      /\ copy \in [Sessions -> Nat \cup {None}]
  BY DEF SaveSessions, At, TaskShape
<1>2. count \in Nat /\ count # None
  <2>1. count \in Nat
    BY LenProperties
  <2> QED BY <2>1, NoneAssumption
<1>3. listed \in [Sessions -> Seq(Messages)]
  BY DEF Inv, Shape
<1>4. store = "local" => /\ Acknowledged(journal, sessions, listed)
                         /\ EndsWith(listed[s], m)
                         /\ \A r \in Sessions : sessions[r] # None => copy[r] # None
  BY <1>1 DEF LocalInv, Sound
<1> HIDE DEF copy, count
<1>5. store = "local" => \A r \in Sessions : sessions[r] # None => sessions'[r] # None
  BY <1>1, <1>2, <1>4
<1>6. ASSUME store = "local"
      PROVE  Acknowledged(journal', sessions', listed')
  <2> HIDE DEF s, m
  <2>1. m \in ToSet(listed[s])
    <3>1. listed[s] \in Seq(Messages) /\ listed[s] # <<>> /\ Last(listed[s]) = m
      BY <1>1, <1>3, <1>4, <1>6 DEF EndsWith
    <3>2. Len(listed[s]) \in DOMAIN listed[s]
      BY <3>1
    <3> QED BY <3>1, <3>2 DEF Last, ToSet
  <2>2. ASSUME NEW r \in Sessions, <<"start", r>> \in journal'
        PROVE  sessions'[r] # None
    <3>1. <<"start", r>> \in journal
      BY <1>1, <2>2
    <3> QED BY <1>4, <1>5, <1>6, <3>1 DEF Acknowledged
  <2>3. ASSUME NEW r \in Sessions, NEW x \in Messages, <<"add", r, x>> \in journal'
        PROVE  x \in ToSet(listed'[r])
    <3>1. CASE <<"add", r, x>> \in journal
      BY <1>1, <1>4, <1>6, <3>1 DEF Acknowledged
    <3>2. CASE <<"add", r, x>> = <<"add", s, m>>
      BY <1>1, <2>1, <3>2
    <3> QED BY <1>1, <2>3, <3>1, <3>2
  <2> QED BY <2>2, <2>3 DEF Acknowledged
<1> DEFINE empty == <<>>
           After(t) == [t EXCEPT !.sessions = NoSessions, !.ids = empty]
<1>7. \/ Continue(c, Idle)
      \/ Continue(c, After(Idle))
      \/ m = task[c].prompt /\ Continue(c, After(Goto(c, "load_context")))
  BY DEF SaveSessions, Return
<1> HIDE DEF empty
<1>8. CASE Continue(c, Idle)
  BY <1>1, <1>6, <1>8, IdleSound, LocalMove
<1>9. CASE Continue(c, After(Idle))
  <2> DEFINE t == After(Idle)
  <2>1. t.pc = "idle"
    BY DEF Idle, Begun
  <2>2. Continue(c, t)
    BY <1>9
  <2> HIDE DEF t
  <2>3. Sound(t, sessions', listed')
    BY <2>1 DEF Sound
  <2> QED BY <1>1, <1>6, <2>2, <2>3, LocalMove
<1>10. CASE m = task[c].prompt /\ Continue(c, After(Goto(c, "load_context")))
  <2> DEFINE t == After(Goto(c, "load_context"))
  <2>1. t.pc = "load_context" /\ t.session = s /\ t.prompt = task[c].prompt
    BY DEF Goto, AnyTask
  <2>2. Continue(c, t)
    BY <1>10
  <2> HIDE DEF t
  <2>3. store = "local" => Sound(t, sessions', listed')
    BY <1>1, <1>4, <1>10, <2>1 DEF Sound
  <2> QED BY <1>1, <1>6, <2>2, <2>3, LocalMove
<1> QED BY <1>7, <1>8, <1>9, <1>10

LEMMA LocalCrashes ==
    ASSUME Inv, LocalInv, Crash
    PROVE  LocalInv'
<1>1. /\ UNCHANGED <<store, sessions, listed, journal>>
      /\ task' = [c \in Clients |-> Idle]
  BY DEF Crash, shared
<1> QED BY <1>1, IdleSound DEF LocalInv

LEMMA LocalInitially == SummariesInit => LocalInv
<1> SUFFICES ASSUME SummariesInit PROVE LocalInv
  OBVIOUS
<1>1. journal = {} /\ task = [c \in Clients |-> Idle]
  BY DEF SummariesInit, Init
<1> QED BY <1>1, IdleSound DEF LocalInv, Acknowledged

LEMMA LocalConsecution ==
    ASSUME Inv, LocalInv, [SummariesNext]_<<vars, summaryVars>>
    PROVE  LocalInv'
<1>1. ASSUME NEW c \in Clients, Step(c)
      PROVE  LocalInv'
  BY <1>1, LocalBegins, LocalReads, LocalPuts, LocalSavesStart, LocalSavesIds, LocalSavesSessions
     DEF Step
<1>2. CASE UNCHANGED vars
  BY <1>2 DEF vars, LocalInv
<1>3. ASSUME NEW p \in Summarizers, Summarize(p)
      PROVE  LocalInv'
  <2>1. UNCHANGED vars
    BY <1>3 DEF Summarize, StartSummarize, ReadSession, ReadMessages, LoadSummary, SaveSummary,
                SummarizeFails
  <2> QED BY <1>2, <2>1
<1> QED BY <1>1, <1>2, <1>3, LocalCrashes DEF SummariesNext, Next

\* On the local store a session or message whose start_session() or add_message() has
\* returned stays in its list, and what an operation is about to write back or to ask
\* the model has it, because it keeps the event loop from its first read to its last write.
THEOREM LocalInvariance == SummariesSpec => []LocalInv
<1>1. Inv /\ LocalInv /\ [SummariesNext]_<<vars, summaryVars>> => LocalInv'
  BY LocalConsecution
<1> QED BY <1>1, LocalInitially, Invariance, PTL DEF SummariesSpec

\* Whatever calls and failures come between: on the local store a session that
\* start_session() returned stays in the session list, and a message that
\* add_message() returned stays in the index of its session.
THEOREM AcknowledgedStaysListed == SummariesSpec => []AcknowledgedListed
<1>1. LocalInv => AcknowledgedListed
  BY DEF LocalInv, Acknowledged, AcknowledgedListed, OnLocal
<1> QED BY <1>1, LocalInvariance, PTL

\* On the local store the context build_context() selects for the model ends with
\* the prompt the chat has just stored, however long it and the others are.
THEOREM ContextKeepsPrompt == SummariesSpec => []ContextEndsWithPrompt
<1>1. LocalInv => ContextEndsWithPrompt
  BY DEF LocalInv, Sound, EndsWith, ContextEndsWithPrompt, OnLocal
<1> QED BY <1>1, LocalInvariance, PTL
=============================================================================
