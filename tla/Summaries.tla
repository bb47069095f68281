------------------------------- MODULE Summaries -------------------------------
(***************************************************************************)
(* The conversation summaries (src/mysti/memory/summarization.py) over the *)
(* sessions of Conversations.  A summary is one object per session; a      *)
(* call of summarize() reads the messages, then the summary there is, and  *)
(* writes the two merged, a model call later.  The only caller is the      *)
(* command `mysti memory summarize', a program of its own: its steps fall  *)
(* between any two of the clients' and of other summarizers'.              *)
(*                                                                         *)
(* A summary is the sequence of the messages it was made from: its         *)
(* message_count is their number, what it says of them is left out.        *)
(***************************************************************************)
EXTENDS Conversations

CONSTANTS Summarizers   \* runs of the command

VARIABLES
    summaries,  \* summaries[s]: the messages summarized, or None
    job         \* job[p]: the locals of summarize()

summaryVars == <<summaries, job>>

NoJob == [pc |-> "idle", session |-> None, force |-> FALSE,
          messages |-> <<>>, merged |-> <<>>]

SummariesTypeOK ==
    /\ TypeOK
    /\ summaries \in [Sessions -> Seq(Messages) \cup {None}]
    /\ job \in [Summarizers -> [pc : {"idle", "session", "messages", "load", "save"},
                                session : Sessions \cup {None}, force : BOOLEAN,
                                messages : Seq(Messages), merged : Seq(Messages)]]

SummariesInit ==
    /\ Init
    /\ summaries = NoSessions
    /\ job = [p \in Summarizers |-> NoJob]

-----------------------------------------------------------------------------
Turn(p, t) == job' = [job EXCEPT ![p] = t]

Finish(p) == Turn(p, NoJob)

StartSummarize(p) ==
    /\ job[p].pc = "idle"
    /\ \E s \in Sessions, force \in BOOLEAN :
        Turn(p, [NoJob EXCEPT !.pc = "session", !.session = s, !.force = force])
    /\ UNCHANGED <<vars, summaries>>

\* get_messages: the session list, then the session's index and blobs.  Blobs
\* are written once and never deleted, so it is all one when they are read.
ReadSession(p) ==
    /\ job[p].pc = "session"
    /\ IF sessions[job[p].session] = None
       THEN Finish(p)
       ELSE Turn(p, [job[p] EXCEPT !.pc = "messages"])
    /\ UNCHANGED <<vars, summaries>>

ReadMessages(p) ==
    LET ids == listed[job[p].session]
    IN  /\ job[p].pc = "messages"
        /\ IF ids # <<>> /\ ToSet(ids) \subseteq stored
           THEN Turn(p, [job[p] EXCEPT !.pc = "load", !.messages = ids])
           ELSE Finish(p)
        /\ UNCHANGED <<vars, summaries>>

\* Mutation: the earlier summary is extended by all messages, the ones it counts
\* included.
Extended_Whole(earlier, messages) == earlier \o messages

\* _merge_incremental: the messages after the ones the earlier summary counts.
Extended(earlier, messages) ==
    earlier \o SubSeq(messages, Len(earlier) + 1, Len(messages))

\* With nothing new, the earlier summary is the result.  Otherwise the model (or
\* the extractive fallback) is given what is new, or with force everything.
LoadSummary(p) ==
    LET t == job[p]
        earlier == summaries[t.session]
        Save(merged) == Turn(p, [t EXCEPT !.pc = "save", !.messages = <<>>,
                                          !.merged = merged])
    IN  /\ t.pc = "load"
        /\ IF earlier = None \/ t.force THEN Save(t.messages)
           ELSE IF Len(t.messages) > Len(earlier) THEN Save(Extended(earlier, t.messages))
           ELSE Finish(p)
        /\ UNCHANGED <<vars, summaries>>

SaveSummary(p) ==
    /\ job[p].pc = "save"
    /\ summaries' = [summaries EXCEPT ![job[p].session] = job[p].merged]
    /\ Finish(p)
    /\ UNCHANGED vars

\* A storage call raises, or the program dies.
SummarizeFails(p) ==
    /\ Faults \cap {"error", "crash"} # {}
    /\ job[p].pc # "idle"
    /\ Finish(p)
    /\ UNCHANGED <<vars, summaries>>

Summarize(p) ==
    \/ StartSummarize(p) \/ ReadSession(p) \/ ReadMessages(p) \/ LoadSummary(p)
    \/ SaveSummary(p) \/ SummarizeFails(p)

SummariesNext ==
    \/ Next /\ UNCHANGED summaryVars
    \/ \E p \in Summarizers : Summarize(p)

SummariesSpec == SummariesInit /\ [][SummariesNext]_<<vars, summaryVars>>

-----------------------------------------------------------------------------
(* Properties. *)

\* A summary is made from the first message_count messages of its session, each
\* of them once: the next one goes on where it ended.  Summarizers and the
\* exchanges they overtake may interleave at any call.  (Local store: over S3 the
\* index itself may lose messages.)
SummaryCoversPrefix ==
    OnLocal(\A s \in Sessions : summaries[s] # None => IsPrefix(summaries[s], listed[s]))
=============================================================================
