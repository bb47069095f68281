----------------------------- MODULE Conversations -----------------------------
(***************************************************************************)
(* The encrypted conversations (src/mysti/memory/conversations.py) and the *)
(* exchange with the language model built on them: POST                    *)
(* /conversation/{id}/message of the API and chat() of the REPL.  One      *)
(* object lists the sessions with their message counts, one object per     *)
(* session lists its message ids, and each message is a sealed blob of its *)
(* own.  add_message() reads the session list first and writes it last,    *)
(* with four storage calls in between and no lock.                         *)
(*                                                                         *)
(* Each storage call is one step, with the code up to the next one.  A     *)
(* coroutine gives up the event loop during the model's answer, and at     *)
(* storage calls only on S3: those of the local file system do not wait.   *)
(* A message is its id: what build_context() reads of it is its length,    *)
(* and its role is its place in the exchange.                              *)
(***************************************************************************)
EXTENDS Naturals, Sequences, SequencesExt

CONSTANTS
    Clients,        \* coroutines of the process
    Sessions,       \* the supply of session ids
    Messages,       \* the supply of message ids
    Length,         \* [Messages -> Nat]: len(content)
    Budget,         \* max_tokens * 4
    Stores,         \* subset of {"local", "s3"}: the backends there may be
    Faults,         \* subset of {"error", "lost_reply", "crash"}
    None

ASSUME LengthAssumption == Length \in [Messages -> Nat]
ASSUME BudgetAssumption == Budget \in Nat
ASSUME NoneAssumption == None \notin Nat \cup Messages \cup Sessions \cup Clients

VARIABLES
    store,      \* the backend the program was configured with
    sessions,   \* sessions[s]: its message_count in the session list, or None
    listed,     \* listed[s]: the message ids in the index object of s
    stored,     \* the messages with a blob
    journal,    \* audit entries: <<"start", s>> and <<"add", s, m>>
    task,       \* task[c]: what coroutine c is doing
    loop        \* the coroutine that has not yielded yet, or None

shared == <<store, sessions, listed, stored, journal>>

vars == <<store, sessions, listed, stored, journal, task, loop>>

NoSessions == [s \in Sessions |-> None]

\* The locals of an operation: its session; in a chat the prompt, the reply and
\* which of the two is being added; the copies it has read; the model's context.
Task == [op : {"none", "start", "chat", "read"},
         pc : {"idle", "load", "put", "load_ids", "save_ids", "save",
               "load_context", "load_context_ids", "fetch", "llm"},
         session : Sessions \cup {None},
         prompt : Messages \cup {None}, reply : Messages \cup {None},
         adding : Messages \cup {None},
         sessions : [Sessions -> Nat \cup {None}],
         ids : Seq(Messages), context : Seq(Messages)]

Begun(op, pc, s) ==
    [op |-> op, pc |-> pc, session |-> s, prompt |-> None, reply |-> None,
     adding |-> None, sessions |-> NoSessions, ids |-> <<>>, context |-> <<>>]

Idle == Begun("none", "idle", None)

TypeOK ==
    /\ store \in Stores
    /\ sessions \in [Sessions -> Nat \cup {None}]
    /\ listed \in [Sessions -> Seq(Messages)]
    /\ stored \subseteq Messages
    /\ journal \subseteq ({"start"} \X Sessions) \cup ({"add"} \X Sessions \X Messages)
    /\ task \in [Clients -> Task]
    /\ loop \in Clients \cup {None}

Init ==
    /\ store \in Stores
    /\ sessions = NoSessions
    /\ listed = [s \in Sessions |-> <<>>]
    /\ stored = {}
    /\ journal = {}
    /\ task = [c \in Clients |-> Idle]
    /\ loop = None

-----------------------------------------------------------------------------
Holds(c) == loop \in {None, c}

Continue(c, t) ==
    /\ task' = [task EXCEPT ![c] = t]
    /\ loop' = IF t.pc \in {"idle", "llm"} \/ store = "s3" THEN None ELSE c

Return(c) == Continue(c, Idle)

At(c, pc) == task[c].pc = pc /\ Holds(c)

Goto(c, pc) == [task[c] EXCEPT !.pc = pc]

\* A write took effect: c goes on, or the answer was lost and c ends here.
Written(c, pc) ==
    \/ Continue(c, Goto(c, pc))
    \/ "lost_reply" \in Faults /\ Return(c)

-----------------------------------------------------------------------------
(* start_session *)

\* uuid4(): no session has the id and no start in progress uses it.
StartSession(c) ==
    /\ At(c, "idle")
    /\ \E s \in Sessions :
        /\ sessions[s] = None /\ listed[s] = <<>> /\ <<"start", s>> \notin journal
        /\ \A d \in Clients : task[d].session # s
        /\ Continue(c, Begun("start", "load", s))
    /\ UNCHANGED shared

LoadForStart(c) ==
    /\ At(c, "load") /\ task[c].op = "start"
    /\ Continue(c, [task[c] EXCEPT !.pc = "save",
                                   !.sessions = [sessions EXCEPT ![task[c].session] = 0]])
    /\ UNCHANGED shared

SaveStart(c) ==
    /\ At(c, "save") /\ task[c].op = "start"
    /\ sessions' = task[c].sessions
    /\ \/ journal' = journal \cup {<<"start", task[c].session>>}
       \/ "lost_reply" \in Faults /\ UNCHANGED journal
    /\ Return(c)
    /\ UNCHANGED <<store, listed, stored>>

-----------------------------------------------------------------------------
(* An exchange: the prompt is added, the context built, the reply added.  The  *)
(* reply's id is drawn with the prompt's; the API's look-up of the session     *)
(* before add_message() repeats the one in LoadForAdd and is left out.         *)

IsFresh(m) == m \notin stored /\ \A c \in Clients : m \notin {task[c].prompt, task[c].reply}

StartChat(c) ==
    /\ At(c, "idle")
    /\ \E s \in Sessions, prompt, reply \in {m \in Messages : IsFresh(m)} :
        /\ prompt # reply
        /\ Continue(c, [Begun("chat", "load", s) EXCEPT
                !.prompt = prompt, !.reply = reply, !.adding = prompt])
    /\ UNCHANGED shared

\* add_message: the session list is read here and written in SaveSessions.
LoadForAdd(c) ==
    /\ At(c, "load") /\ task[c].op = "chat"
    /\ IF sessions[task[c].session] = None
       THEN Return(c)
       ELSE Continue(c, [task[c] EXCEPT !.pc = "put", !.sessions = sessions])
    /\ UNCHANGED shared

\* Mutation: the put is not awaited, so that its failure goes unseen.
PutMessage_Unawaited(c) ==
    /\ At(c, "put")
    /\ stored' \in {stored, stored \cup {task[c].adding}}
    /\ Written(c, "load_ids")
    /\ UNCHANGED <<store, sessions, listed, journal>>

PutMessage(c) ==
    /\ At(c, "put")
    /\ stored' = stored \cup {task[c].adding}
    /\ Written(c, "load_ids")
    /\ UNCHANGED <<store, sessions, listed, journal>>

\* Mutation: the newest message is put first.
LoadIds_Prepend(c) ==
    /\ At(c, "load_ids")
    /\ Continue(c, [task[c] EXCEPT !.pc = "save_ids",
                                   !.ids = <<task[c].adding>> \o listed[task[c].session]])
    /\ UNCHANGED shared

LoadIds(c) ==
    /\ At(c, "load_ids")
    /\ Continue(c, [task[c] EXCEPT !.pc = "save_ids",
                                   !.ids = Append(listed[task[c].session], task[c].adding)])
    /\ UNCHANGED shared

\* Mutation: the index holds the newest message only.
SaveIds_NewestOnly(c) ==
    /\ At(c, "save_ids")
    /\ listed' = [listed EXCEPT ![task[c].session] = <<task[c].adding>>]
    /\ Written(c, "save")
    /\ UNCHANGED <<store, sessions, stored, journal>>

SaveIds(c) ==
    /\ At(c, "save_ids")
    /\ listed' = [listed EXCEPT ![task[c].session] = task[c].ids]
    /\ Written(c, "save")
    /\ UNCHANGED <<store, sessions, stored, journal>>

\* The end of add_message; the chat then builds its context, or is over.
SaveSessions(c) ==
    LET t == task[c]
        added == IF t.adding = t.prompt THEN Goto(c, "load_context") ELSE Idle
    IN  /\ At(c, "save") /\ t.op = "chat"
        /\ sessions' = [t.sessions EXCEPT ![t.session] = Len(t.ids)]
        /\ \/ /\ journal' = journal \cup {<<"add", t.session, t.adding>>}
              /\ Continue(c, [added EXCEPT !.sessions = NoSessions, !.ids = <<>>])
           \/ /\ "lost_reply" \in Faults
              /\ Return(c)
              /\ UNCHANGED journal
        /\ UNCHANGED <<store, listed, stored>>

-----------------------------------------------------------------------------
(* get_messages and build_context *)

\* GET /conversation/{id}/messages
StartRead(c) ==
    /\ At(c, "idle")
    /\ \E s \in Sessions : Continue(c, Begun("read", "load_context", s))
    /\ UNCHANGED shared

LoadForContext(c) ==
    /\ At(c, "load_context")
    /\ IF sessions[task[c].session] = None THEN Return(c)
                                           ELSE Continue(c, Goto(c, "load_context_ids"))
    /\ UNCHANGED shared

LoadContextIds(c) ==
    /\ At(c, "load_context_ids")
    /\ Continue(c, [task[c] EXCEPT !.pc = "fetch", !.ids = listed[task[c].session]])
    /\ UNCHANGED shared

\* used[k]: the length of the k newest messages of ids together.
Used(ids) ==
    LET used[k \in 0 .. Len(ids)] ==
            IF k = 0 THEN 0 ELSE used[k - 1] + Length[ids[Len(ids) - k + 1]]
    IN  used

\* Newest first; the first message that does not fit ends the selection, unless
\* nothing is selected yet.
Selected(ids) ==
    LET full(k) == k = Len(ids) \/ (k > 0 /\ Used(ids)[k + 1] > Budget)
        k == CHOOSE k \in 0 .. Len(ids) : full(k) /\ \A j \in 0 .. k - 1 : ~full(j)
    IN  SubSeq(ids, Len(ids) - k + 1, Len(ids))

\* One get() per message; the first that is not there ends the operation.
FetchMessages(c) ==
    LET ids == task[c].ids
    IN  /\ At(c, "fetch")
        /\ IF task[c].op = "chat" /\ ToSet(ids) \subseteq stored
           THEN Continue(c, [task[c] EXCEPT !.pc = "llm", !.context = Selected(ids)])
           ELSE Return(c)
        /\ UNCHANGED shared

Reply(c) ==
    /\ At(c, "llm")
    /\ Continue(c, [task[c] EXCEPT !.pc = "load", !.adding = task[c].reply,
                                   !.ids = <<>>, !.context = <<>>])
    /\ UNCHANGED shared

-----------------------------------------------------------------------------
(* Faults. *)

\* A storage call raises without effect, or the model gives no answer within
\* its retries: the operation ends, what it has written stays.
CallFails(c) ==
    /\ "error" \in Faults
    /\ Holds(c) /\ task[c].pc # "idle"
    /\ Return(c)
    /\ UNCHANGED shared

Crash ==
    /\ "crash" \in Faults
    /\ task' = [c \in Clients |-> Idle]
    /\ loop' = None
    /\ UNCHANGED shared

Step(c) ==
    \/ StartSession(c) \/ LoadForStart(c) \/ SaveStart(c)
    \/ StartChat(c) \/ LoadForAdd(c) \/ PutMessage(c) \/ LoadIds(c) \/ SaveIds(c)
    \/ SaveSessions(c) \/ Reply(c)
    \/ StartRead(c) \/ LoadForContext(c) \/ LoadContextIds(c) \/ FetchMessages(c)
    \/ CallFails(c)

Next == Crash \/ \E c \in Clients : Step(c)

Spec == Init /\ [][Next]_vars

-----------------------------------------------------------------------------
(* Properties. *)

\* Whatever the interleaving and the faults, every message id in the index of a
\* session, and in a copy that is about to replace it, has a blob: one that had
\* none would make get_messages(), and every later chat in the session, fail.
ListedMessagesStored ==
    /\ \A s \in Sessions : ToSet(listed[s]) \subseteq stored
    /\ \A c \in Clients : ToSet(task[c].ids) \subseteq stored

\* The properties that need an operation's calls to follow each other unbroken.
OnLocal(P) == store = "local" => P

\* A session start_session() returned stays known, and a message whose add_message()
\* returned stays in its session's index.  (Local store: over S3 a concurrent call writes
\* back a list or an index without it.)
AcknowledgedListed ==
    OnLocal(\A s \in Sessions :
        /\ <<"start", s>> \in journal => sessions[s] # None
        /\ \A m \in Messages : <<"add", s, m>> \in journal => m \in ToSet(listed[s]))

\* The model is asked about the message the chat has just stored: whatever
\* other exchanges the session has seen meanwhile, the context ends with it.
\* (Local store.)
ContextEndsWithPrompt ==
    OnLocal(\A c \in Clients : task[c].pc = "llm" =>
                task[c].context # <<>> /\ Last(task[c].context) = task[c].prompt)
=============================================================================
