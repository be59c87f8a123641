--------------------------- MODULE MCAssistant ---------------------------
(***************************************************************************)
(* Conversations in two scenes: turns one after the other without mishaps, *)
(* as a user behaves who waits for each answer, and turns that overlap,    *)
(* with a crash or a message that could not be saved.  Either is with a    *)
(* provider whose calls have ids of their own, or with Ollama.             *)
(***************************************************************************)
EXTENDS Conversations, TLC

CONSTANT MaxCreated  \* messages created while turns overlap

VARIABLES manner, numbered

talkVars == <<chatVars, manner, numbered>>

TurnSymmetry == Permutations(Turns)

Busy(t) == phase[t] # "idle" \/ adding[t] # 0 \/ gen[t] # "none"
OneByOne == \A t, u \in Turns : Busy(t) /\ Busy(u) => t = u

\* Overlapping turns are kept small: one call in a reply.
Small == created <= MaxCreated /\ \A t \in Turns : Cardinality(todo[t]) <= 1

OneProvider == \A t \in Turns : \A c \in todo[t] : c[3] = 0 <=> numbered

TalkInit ==
    /\ ChatInit
    /\ manner \in {"waits", "overlaps"} /\ (manner = "waits" => mishaps = 1)
    /\ numbered \in BOOLEAN

TalkNext ==
    /\ ChatNext /\ UNCHANGED <<manner, numbered>> /\ OneProvider'
    /\ IF manner = "waits" THEN OneByOne' ELSE Small'

TalkSpec == TalkInit /\ [][TalkNext]_talkVars

-----------------------------------------------------------------------------
(* Properties *)

\* A history is sound, as the providers demand, when no answer stands without
\* its call, and the answers to the calls of a message follow it directly.
NoStrayAnswer(q) ==
    \A i \in DOMAIN q : q[i].role = "tool" => q[i].answers \subseteq CallsMade(SubSeq(q, 1, i - 1))

AnswersFollow(q) ==
    \A i \in DOMAIN q : \A c \in q[i].calls :
       \E j \in i + 1 .. Len(q) :
          q[j].answers = {c} /\ \A k \in i + 1 .. j : q[k].role = "tool"

\* The history of a user who waits stays sound, wherever a summary cuts it, also
\* when calls in different messages have the same ids (findSafeSummarizeSplit).
WaitingHistoryIsSound ==
    manner = "waits" /\ conv.exists /\ (\A t \in Turns : phase[t] # "tools") =>
       NoStrayAnswer(Chronological(messages)) /\ AnswersFollow(Chronological(messages))

\* The same of the answers whose ids no other call has.
NoStrayOwnAnswer(q) ==
    \A i \in DOMAIN q :
       q[i].role = "tool" => {c \in q[i].answers : c[3] # 0} \subseteq CallsMade(SubSeq(q, 1, i - 1))

\* What the model is asked is sound for a user who waits.  Even when turns
\* overlap and a summary takes the calls of another turn, or a message of calls
\* could not be saved, it has no stray answer to a call that has an id of its own
\* (SanitizeChatMessages).  An answer to one of Ollama's numbered calls may then
\* stand without its call: it passes for the answer to another of its number.
AsksSoundly ==
    \A t \in Turns : Ready(t, "asks") =>
       /\ NoStrayOwnAnswer(request[t])
       /\ manner = "waits" => NoStrayAnswer(request[t]) /\ AnswersFollow(request[t])

\* Histories and requests are sound.
HistoriesAreSound == ChatTypeOK /\ WaitingHistoryIsSound /\ AsksSoundly

\* While a conversation exists, every user message in it stays there, as
\* itself or in a summary of messages, although other turns add messages while
\* a summary is being written (SummarizeOlderMessages); and the line for the list
\* of conversations is written once, whichever turns want it (summaryInFlight,
\* maybeGenerateSummary, GenerateDisplaySummary).
Remembered == UNION {m.about : m \in messages}
NothingIsForgotten ==
    [][conv'.exists => Remembered \subseteq Remembered' /\ conv'.summaries <= 1]_talkVars
=============================================================================
