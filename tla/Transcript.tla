------------------------------- MODULE Transcript -------------------------------
(***************************************************************************)
(* What is written into the conversations of one account with the manager, *)
(* and read back: app/manager_review.py (reviews, meetings, follow-ups),   *)
(* routes/chat.py (text turns) and routes/voice.py (spoken sessions).      *)
(*                                                                         *)
(* Every message is an INSERT of its own.  A message of the assistant may  *)
(* carry a tool call, here the number of the message; a result names its   *)
(* call.  Meetings store both; a chat stores, on its final answer, the     *)
(* last calls it made, and no results.                                     *)
(***************************************************************************)
EXTENDS Integers, FiniteSets, Sequences

CONSTANTS Threads,       \* the conversations
          MaxSessions,   \* meetings, follow-ups, chats and calls (bound)
          Rounds,        \* MAX_TOOL_ROUNDS_PER_REVIEW, _PER_MEETING, _PER_FOLLOWUP, MAX_TOOL_TURNS
          NoThread

ASSUME TranscriptConstants == NoThread \notin Threads /\ Rounds \in Nat \ {0} /\ MaxSessions \in Nat

VARIABLES
    thread,      \* [Threads -> Seq of messages]
    latest,      \* the conversation with the latest last_message_at
    linked,      \* conversations that a manager_actions row names
    session,     \* [Sessions -> what, where, its next statement, rounds left]
    mixed,       \* conversations two sessions wrote in at one time
    cutOff,      \* conversations where a session died
    borrowed,    \* conversations where a chat stored calls
    unsound      \* conversations replayed with a call and no result behind it

transcriptVars == <<thread, latest, linked, session, mixed, cutOff, borrowed, unsound>>
ghosts == <<cutOff, borrowed, unsound>>

\* Numbered as they start.
Sessions == 1..MaxSessions
Message(role, call) == [role |-> role, call |-> call]
Messages == [role : {"user", "assistant", "tool"}, call : Nat]
Idle == [what |-> "none", where |-> NoThread, next |-> "none", left |-> 0, call |-> 0]
Talking(t) == {s \in Sessions : session[s].where = t /\ session[s].next # "over"}
Existing == {t \in Threads : thread[t] # <<>> \/ Talking(t) # {}}
\* The conversations a session may name, and the next one to be inserted.
New == IF Existing = Threads THEN {} ELSE {CHOOSE t \in Threads : t \notin Existing}

TranscriptTypeOK ==
    /\ thread \in [Threads -> Seq(Messages)]
    /\ latest \in {t \in Threads : thread[t] # <<>>} \cup {NoThread}
    /\ linked \cup mixed \cup cutOff \cup borrowed \cup unsound \subseteq Threads
    /\ \A s \in Sessions : LET v == session[s] IN
          /\ v.what \in {"none", "meeting", "followup", "chat", "voice", "reply"}
          /\ v.where \in Threads \cup {NoThread} /\ (v.where = NoThread <=> v = Idle)
          /\ v.left \in 0..Rounds /\ v.call \in Nat
          /\ v.next \in {"none", "model", "result", "log", "speech", "over"}
          /\ v.next = "result" => thread[v.where][v.call] = Message("assistant", v.call)

TranscriptInit ==
    /\ thread = [t \in Threads |-> <<>>] /\ latest = NoThread /\ linked = {}
    /\ session = [s \in Sessions |-> Idle]
    /\ mixed = {} /\ cutOff = {} /\ borrowed = {} /\ unsound = {}

-----------------------------------------------------------------------------
\* INSERT INTO conversation_messages, and the conversation's last_message_at.
Writes(t, m) ==
    /\ thread' = [thread EXCEPT ![t] = Append(@, m)]
    /\ latest' = t

Starts(s, what, t, next) ==
    /\ session[s] = Idle /\ \A r \in 1..s - 1 : session[r] # Idle
    /\ session' = [session EXCEPT ![s] = [what |-> what, where |-> t, next |-> next,
                                          left |-> Rounds, call |-> 0]]
    /\ mixed' = IF Talking(t) # {} THEN mixed \cup {t} ELSE mixed
Then(s, next) == session' = [session EXCEPT ![s].next = next]
Finishes(s) == session' = [session EXCEPT ![s].next = "over", ![s].call = 0]

\* _run_one_on_one, _review_one_company: a conversation of its own and the prompt.
OpenMeeting(s, t) ==
    /\ t \in New /\ Starts(s, "meeting", t, "model")
    /\ Writes(t, Message("user", 0))
    /\ UNCHANGED <<linked, ghosts>>

\* The messages of a replay have the results of every call right behind it: what
\* providers ask for (the docstring of chat._load_history).
Answered(m, i) == m[i].role = "assistant" /\ m[i].call # 0
                     => i < Len(m) /\ m[i + 1] = Message("tool", m[i].call)
Sound(m) == \A i \in 1..Len(m) : Answered(m, i)

\* _run_meeting_followup: _rebuild_messages reads the thread back, then the
\* CEO's message is stored, and the model is asked.
FollowUp(s, t) ==
    /\ t \in linked /\ Starts(s, "followup", t, "model")
    /\ unsound' = IF Sound(thread[t]) THEN unsound ELSE unsound \cup {t}
    /\ Writes(t, Message("user", 0))
    /\ UNCHANGED <<linked, cutOff, borrowed>>

\* chat: the user's message is stored before the model is asked, in a new
\* conversation or one the caller names; the history read back has no calls.
\* last_message_at waits for the answer.
Asks(t) == thread' = [thread EXCEPT ![t] = Append(@, Message("user", 0))] /\ UNCHANGED latest
Chat(s, t) ==
    /\ t \in Existing \cup New /\ Starts(s, "chat", t, "model") /\ Asks(t)
    /\ UNCHANGED <<linked, ghosts>>

\* A round of a meeting or follow-up: the answer has a call, or ends the talk.
ModelCalls(s) ==
    LET t == session[s].where IN
    /\ session[s].what \in {"meeting", "followup"} /\ session[s].next = "model"
    /\ Writes(t, Message("assistant", Len(thread[t]) + 1))
    /\ session' = [session EXCEPT ![s].next = "result", ![s].call = Len(thread[t]) + 1]
    /\ UNCHANGED <<linked, mixed, ghosts>>

\* The call is executed and its result stored.  The mutant drops the result of
\* the last round, which no model will read in this talk.
MutantStoresResult(s) == session[s].left > 1
StoresResult(s) == TRUE
ToolAnswers(s) ==
    LET v == session[s] IN
    /\ v.next = "result"
    /\ IF StoresResult(s) THEN Writes(v.where, Message("tool", v.call)) ELSE UNCHANGED <<thread, latest>>
    /\ session' = [session EXCEPT ![s].left = @ - 1, ![s].call = 0,
                                  ![s].next = IF v.left = 1 THEN "log" ELSE "model"]
    /\ UNCHANGED <<linked, mixed, ghosts>>

ModelConcludes(s) ==
    LET t == session[s].where IN
    /\ session[s].what \in {"meeting", "followup"} /\ session[s].next = "model"
    /\ Writes(t, Message("assistant", 0)) /\ Then(s, "log")
    /\ UNCHANGED <<linked, mixed, ghosts>>

\* _log_review, _log_meeting: the row that lets the CEO follow up.
LogTalk(s) ==
    /\ session[s].next = "log" /\ Finishes(s)
    /\ linked' = linked \cup {session[s].where}
    /\ UNCHANGED <<thread, latest, mixed, ghosts>>

\* The rounds of a chat keep calls and results in memory.
ChatCalls(s) ==
    /\ session[s].what = "chat" /\ session[s].next = "model" /\ session[s].left > 0
    /\ session' = [session EXCEPT ![s].left = @ - 1, ![s].call = 1]
    /\ UNCHANGED <<thread, latest, linked, mixed, ghosts>>

\* Its final text, or the sentence that its turns are used up, with last_tool_calls.
ChatAnswers(s) ==
    LET t == session[s].where IN
    /\ session[s].what = "chat" /\ session[s].next = "model" /\ Finishes(s)
    /\ Writes(t, Message("assistant", IF session[s].call = 0 THEN 0 ELSE Len(thread[t]) + 1))
    /\ borrowed' = IF session[s].call = 0 THEN borrowed ELSE borrowed \cup {t}
    /\ UNCHANGED <<linked, mixed, cutOff, unsound>>

\* _persist_voice_turn: the conversation touched last, or a new one; what the
\* user said and what the agent said, each unless it is empty.
Chosen == IF latest # NoThread THEN {latest} ELSE IF Existing # {} THEN Existing ELSE New
VoiceEnds(s, t, what) ==
    /\ t \in Chosen /\ Starts(s, what, t, "speech")
    /\ IF what = "voice" THEN Asks(t) ELSE UNCHANGED <<thread, latest>>
    /\ UNCHANGED <<linked, ghosts>>
VoiceSpeech(s) ==
    /\ session[s].next = "speech" /\ Finishes(s)
    /\ Writes(session[s].where, Message("assistant", 0))
    /\ UNCHANGED <<linked, mixed, ghosts>>

\* A provider, a statement or the process fails.
SessionDies(s) ==
    /\ session[s].next \notin {"none", "over"} /\ Finishes(s)
    /\ cutOff' = cutOff \cup {session[s].where}
    /\ UNCHANGED <<thread, latest, linked, mixed, borrowed, unsound>>

SessionStep(s) ==
    \/ \E t \in Threads : \/ OpenMeeting(s, t) \/ FollowUp(s, t) \/ Chat(s, t)
                          \/ \E what \in {"voice", "reply"} : VoiceEnds(s, t, what)
    \/ ModelCalls(s) \/ ToolAnswers(s) \/ ModelConcludes(s) \/ LogTalk(s)
    \/ ChatCalls(s) \/ ChatAnswers(s) \/ VoiceSpeech(s) \/ SessionDies(s)

TranscriptNext == \E s \in Sessions : SessionStep(s)
TranscriptSpec == TranscriptInit /\ [][TranscriptNext]_transcriptVars
-----------------------------------------------------------------------------
\* A conversation that one session at a time wrote in, none of which died and no
\* chat borrowed, has the result of each call right behind it, but for the call
\* being executed; and every follow-up on it replayed what a provider accepts.
OrphansHaveACause ==
    /\ unsound \subseteq mixed \cup cutOff \cup borrowed
    /\ \A t \in Threads \ (mixed \cup cutOff \cup borrowed) : \A i \in 1..Len(thread[t]) :
          \/ Answered(thread[t], i)
          \/ \E s \in Talking(t) : session[s].next = "result" /\ session[s].call = i

\* "Persist user message before LLM call so it's recorded even on provider
\* failure" (chat.py:384), and likewise the prompts and the CEO's replies: each
\* session has its user message, whichever of its later statements fails.
QuestionsAreKept ==
    \A t \in Threads :
        Cardinality({s \in Sessions : session[s].where = t /\ session[s].what # "reply"})
            = Cardinality({i \in 1..Len(thread[t]) : thread[t][i].role = "user"})

\* A conversation can be taken up again: nothing the user said is missing, and what
\* is replayed is what a provider accepts, with the causes of anything else named.
ThreadsReplay == OrphansHaveACause /\ QuestionsAreKept
=============================================================================
