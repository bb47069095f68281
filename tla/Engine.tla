--------------------------------- MODULE Engine ---------------------------------
(***************************************************************************)
(* The chat pipeline of the AI engine (src/mysti/engine/): the response    *)
(* cache of ProductionEngine.chat, the sessions of AgentCore.chat, and the *)
(* retries of the LLM client behind them.  Any number of calls may be in   *)
(* progress, also in one session; each await is a step boundary.           *)
(*                                                                         *)
(* A message is its text; its reply is known by the message it answers.    *)
(* The cache is the sequence of its entries, the least recently used       *)
(* first.  Time is kept as the age of the entries.  Two observers are not  *)
(* in the code: how long ago the LLM last answered a message, and the      *)
(* order in which messages were last stored or served.                     *)
(***************************************************************************)
EXTENDS Naturals, Sequences, FiniteSets, SequencesExt, Folds, FiniteSetsExt

CONSTANTS
    Calls,          \* concurrent callers
    Sessions,
    Messages,       \* texts a user sends
    Length,         \* Length[m]: the length of message m
    ReplyLength,
    Budget,         \* AgentState.to_context_messages: max_tokens * 4
    MaxSize,        \* LLMCache._max_size
    Ttl,            \* LLMCache._ttl, in ticks
    MaxRetries,     \* _MAX_RETRIES of the LLM client
    MaxMessages     \* bound on the history of a session

ASSUME LengthAssumption == Length \in [Messages -> Nat] /\ ReplyLength \in Nat
ASSUME LimitsAssumption == MaxSize \in Nat \ {0} /\ Ttl \in Nat \ {0}
                           /\ MaxRetries \in Nat /\ MaxMessages \in Nat

VARIABLES
    history,    \* history[s]: AgentState.messages
    cache,      \* the entries of LLMCache, the least recently used first
    task,       \* task[c]: what call c is doing
    answered,   \* observer: ticks since the LLM last answered a message
    touched     \* observer: messages by the time they were last stored or served

vars == <<history, cache, task, answered, touched>>

Entry == [message : Messages, age : 0 .. Ttl]

Idle == [pc |-> "idle"]

TypeOK ==
    /\ history \in [Sessions -> Seq([role : {"user", "assistant"}, message : Messages])]
    /\ cache \in Seq(Entry)
    /\ answered \in [Messages -> 0 .. Ttl]
    /\ touched \in Seq(Messages)
    /\ task \in [Calls -> {Idle} \cup
          [pc : {"classify", "search"}, session : Sessions, message : Messages,
           asked : 1 .. MaxMessages]
          \cup
          [pc : {"llm"}, session : Sessions, message : Messages, asked : 1 .. MaxMessages,
           first : 1 .. MaxMessages, last : 1 .. MaxMessages, retries : 0 .. MaxRetries]]

Init ==
    /\ history = [s \in Sessions |-> <<>>]
    /\ cache = <<>>
    /\ task = [c \in Calls |-> Idle]
    /\ answered = [m \in Messages |-> Ttl]
    /\ touched = <<>>

-----------------------------------------------------------------------------
At(c, pc) == task[c].pc = pc

Become(c, r) == task' = [task EXCEPT ![c] = r]

Chatting(s) == {c \in Calls : task[c] # Idle /\ task[c].session = s}

Say(s, role, m) == history' = [history EXCEPT ![s] = Append(@, [role |-> role, message |-> m])]

-----------------------------------------------------------------------------
(* LLMCache *)

Keys == [i \in DOMAIN cache |-> cache[i].message]

Has(m) == m \in ToSet(Keys)

EntryOf(m) == cache[CHOOSE i \in DOMAIN cache : cache[i].message = m]

Without(m) == RemoveFirstMatch(cache, LAMBDA e : e.message = m)

Live(m) == Has(m) /\ EntryOf(m).age < Ttl

\* Mutation: a hit starts a new life.
Hit_Refreshed(m) == Append(Without(m), [message |-> m, age |-> 0])

\* get: a hit becomes the most recently used entry; its age does not change.
Hit(m) == Append(Without(m), EntryOf(m))

\* set: the least recently used entry makes room for a new message.
Stored(m) ==
    LET kept == IF Len(cache) >= MaxSize /\ ~Has(m) THEN Tail(cache) ELSE Without(m)
    IN  Append(kept, [message |-> m, age |-> 0])

\* The observers: message m is stored or served, and forgotten.
Touch(m) == touched' = Append(RemoveFirst(touched, m), m)

Forget(m) == touched' = RemoveFirst(touched, m)

-----------------------------------------------------------------------------
(* AgentState.to_context_messages *)

Cost(h, i) == IF h[i].role = "user" THEN Length[h[i].message] ELSE ReplyLength

Total(h, first) == FoldFunctionOnSet(+, 0, [i \in DOMAIN h |-> Cost(h, i)], first .. Len(h))

Fits(h, first) == Total(h, first) <= Budget

\* Mutation: the newest message has to fit as well.
ContextFrom_Strict(h) ==
    LET fitting == {i \in DOMAIN h : Fits(h, i)}
    IN  IF fitting = {} THEN Len(h) + 1 ELSE Min(fitting)

\* The first of the newest messages that fit; the newest is taken whatever its length.
ContextFrom(h) == Min({Len(h)} \cup {i \in DOMAIN h : Fits(h, i)})

-----------------------------------------------------------------------------
(* ProductionEngine.chat *)

AnswerFromCache(c) ==
    /\ At(c, "idle")
    /\ \E m \in Messages :
        /\ Live(m)
        /\ cache' = Hit(m)
        /\ Touch(m)
    /\ UNCHANGED <<history, task, answered>>

\* Bounded by MaxMessages.  A miss, which drops an expired entry, and the start of AgentCore.chat.
StartChat(c) ==
    /\ At(c, "idle")
    /\ \E s \in Sessions, m \in Messages :
        /\ Len(history[s]) + Cardinality(Chatting(s)) + 2 <= MaxMessages
        /\ ~Live(m)
        /\ cache' = Without(m)
        /\ Forget(m)
        /\ Say(s, "user", m)
        /\ Become(c, [pc |-> "classify", session |-> s, message |-> m,
                      asked |-> Len(history[s]) + 1])
    /\ UNCHANGED answered

-----------------------------------------------------------------------------
(* AgentCore.chat *)

\* The prompt is built from the session as it is now.
CallLlm(c) ==
    LET h == history[task[c].session]
    IN  Become(c, [pc |-> "llm", session |-> task[c].session, message |-> task[c].message,
                   asked |-> task[c].asked, first |-> ContextFrom(h), last |-> Len(h),
                   retries |-> 0])

\* classify_task, by the LLM or by the rules when that fails; with memories to
\* search or not.
Classify(c) ==
    /\ At(c, "classify")
    /\ CallLlm(c) \/ Become(c, [task[c] EXCEPT !.pc = "search"])
    /\ UNCHANGED <<history, cache, answered, touched>>

\* _retrieve_memories: a failing search finds nothing.
SearchMemory(c) ==
    /\ At(c, "search")
    /\ CallLlm(c)
    /\ UNCHANGED <<history, cache, answered, touched>>

Reply(c) ==
    /\ Say(task[c].session, "assistant", task[c].message)
    /\ Become(c, Idle)

CacheReply(m) ==
    /\ cache' = Stored(m)
    /\ answered' = [answered EXCEPT ![m] = 0]
    /\ Touch(m)

\* The reply joins the history and is cached; nothing is awaited in between.
Answer(c) ==
    /\ At(c, "llm")
    /\ Reply(c)
    /\ CacheReply(task[c].message)

\* An empty reply joins the history but is not cached.
AnswerEmpty(c) ==
    /\ At(c, "llm")
    /\ Reply(c)
    /\ UNCHANGED <<cache, answered, touched>>

\* Mutation: the count of attempts starts over.
RetryLlm_Unbounded(c) ==
    /\ At(c, "llm")
    /\ Become(c, [task[c] EXCEPT !.retries = (@ + 1) % (MaxRetries + 1)])
    /\ UNCHANGED <<history, cache, answered, touched>>

\* _HttpLLMClient.complete: an error is retried a fixed number of times.
RetryLlm(c) ==
    /\ At(c, "llm")
    /\ task[c].retries < MaxRetries
    /\ Become(c, [task[c] EXCEPT !.retries = @ + 1])
    /\ UNCHANGED <<history, cache, answered, touched>>

\* Mutation: the error goes to the caller.
LlmFails_Raises(c) ==
    /\ At(c, "llm")
    /\ Become(c, Idle)
    /\ UNCHANGED <<history, cache, answered, touched>>

\* The attempts are used up, or the error is not one that is retried: its text is
\* the reply, and is cached like one.
LlmFails(c) ==
    /\ At(c, "llm")
    /\ Reply(c)
    /\ CacheReply(task[c].message)

-----------------------------------------------------------------------------
Invalidate ==
    /\ \E m \in Messages : Has(m) /\ cache' = Without(m) /\ Forget(m)
    /\ UNCHANGED <<history, task, answered>>

ClearCache ==
    /\ cache' = <<>>
    /\ touched' = <<>>
    /\ UNCHANGED <<history, task, answered>>

Tick ==
    /\ cache' = [i \in DOMAIN cache |-> [cache[i] EXCEPT !.age = Min({@ + 1, Ttl})]]
    /\ answered' = [m \in Messages |-> Min({answered[m] + 1, Ttl})]
    /\ UNCHANGED <<history, task, touched>>

Proceed(c) ==
    \/ Classify(c)
    \/ SearchMemory(c)
    \/ Answer(c)
    \/ AnswerEmpty(c)
    \/ RetryLlm(c)
    \/ LlmFails(c)

Next ==
    \/ \E c \in Calls : AnswerFromCache(c) \/ StartChat(c) \/ Proceed(c)
    \/ Invalidate
    \/ ClearCache
    \/ Tick

Spec == Init /\ [][Next]_vars

\* The event loop runs what is ready, and every request ends: the HTTP client and
\* the memory service have timeouts.
Fairness == \A c \in Calls : WF_vars(Proceed(c))

FairSpec == Spec /\ Fairness

-----------------------------------------------------------------------------
(* Properties *)

Said(s, role) == {i \in DOMAIN history[s] : history[s][i].role = role}

\* In every session, as many questions are open as chats are in progress: each
\* path through a chat, the failing ones too, ends with exactly one reply.
OpenQuestionsInProgress ==
    \A s \in Sessions :
        Cardinality(Said(s, "user")) =
            Cardinality(Said(s, "assistant")) + Cardinality(Chatting(s))

\* The prompt of a chat has its own question, however long it is, unless messages
\* that other chats of the session added meanwhile take up the budget.
PromptHasQuestion ==
    \A c \in Calls : At(c, "llm") =>
        LET h == SubSeq(history[task[c].session], 1, task[c].last)
        IN  \/ task[c].first <= task[c].asked
            \/ task[c].asked < task[c].last /\ ~Fits(h, task[c].asked)

\* The cache has room for MaxSize replies, and those it holds answer the messages that
\* were stored or served last; none is served longer than Ttl after the LLM gave it,
\* however often it is asked for meanwhile.
CachedRepliesSound ==
    /\ Len(cache) <= MaxSize /\ IsSuffix(Keys, touched)
    /\ \A m \in Messages : Live(m) => answered[m] < Ttl

\* Every chat ends.
ChatsEnd == \A c \in Calls : task[c] # Idle ~> task[c] = Idle
=============================================================================
