-------------------------- MODULE Conversations --------------------------
(***************************************************************************)
(* One conversation with the agent: the messages kept in the database, the *)
(* turns of the agent that answer the user's messages (ProcessMessage),    *)
(* the summary that takes the place of older messages, the one-line        *)
(* summary for the list of conversations, its deletion, and the cleanup of *)
(* empty conversations by a new chat about the same image.                 *)
(*                                                                         *)
(* Every message counts as one token.  A message created as number n has   *)
(* the time 2n; a summary gets a time just before that of the first        *)
(* message it leaves alone, 2n - 1.  Of the text of a message remain the   *)
(* tool calls it makes, the calls it answers and the user messages it      *)
(* tells of.                                                               *)
(***************************************************************************)
EXTENDS Integers, Sequences, FiniteSets

CONSTANTS
    Turns,          \* requests that may be answered at the same time
    MaxSent,        \* user messages sent in all
    MaxCalls,       \* tool calls in one reply of the model
    MaxToolRounds,  \* AgentConfig
    Threshold,      \* AgentConfig.MaxTokens: a longer conversation is summarised
    Limit,          \* context window: a conversation that has reached it is refused
    KeepRecent      \* messages that a summary leaves alone

ASSUME ConversationsAssumption ==
    {MaxSent, MaxCalls, MaxToolRounds, Threshold, Limit, KeepRecent} \subseteq Nat

VARIABLES
    conv,      \* the row of the conversation
    messages,  \* its messages
    created,   \* messages created so far
    sent,      \* user messages sent so far
    phase,     \* what each turn does next
    adding,    \* the message it has created and not counted yet
    request,   \* the messages it sends to the model
    round,     \* rounds of tool calls it has been through
    todo,      \* tool calls it has to execute
    snapshot,  \* the messages it has read to summarise them
    gen,       \* the goroutine it has started to make the one-line summary
    inFlight,  \* such a goroutine is running (summaryInFlight)
    mishaps    \* restarts of the process, and messages that could not be saved

turnVars == <<phase, adding, request, round, todo, snapshot>>
chatVars == <<conv, messages, created, sent, turnVars, gen, inFlight, mishaps>>

Phases == {"idle", "checks", "saves", "reads", "asks", "tools", "decides", "summarises",
           "generates", "launches"}

Message(n, role, calls, answers, about) ==
    [id |-> n, at |-> 2 * n, role |-> role, calls |-> calls, answers |-> answers, about |-> about]

\* A call is the k-th of message n.  It has an id that no other call has, told
\* by n, or the number that Ollama's client gives it in its reply, told by 0:
\* those are the same in every reply.
Call(n, k, numbered) == <<n, k, IF numbered THEN 0 ELSE n>>
ToolCalls == {c \in (1 .. created) \X (1 .. MaxCalls) \X (0 .. created) : c[3] \in {0, c[1]}}
Ids(calls) == {<<c[3], c[2]>> : c \in calls}

IsMessage(m) ==
    /\ DOMAIN m = {"id", "at", "role", "calls", "answers", "about"}
    /\ m.id \in 1 .. created /\ m.at \in Int /\ m.at <= 2 * created
    /\ m.role \in {"user", "assistant", "tool", "system"}
    /\ (m.calls \cup m.answers) \subseteq ToolCalls
    /\ m.about \subseteq 1 .. created

ChatTypeOK ==
    /\ conv.exists \in BOOLEAN
    /\ {conv.tokens, conv.title} \subseteq 0 .. created /\ conv.summaries \in 0 .. MaxSent
    /\ created \in Nat /\ sent \in 0 .. MaxSent
    /\ phase \in [Turns -> Phases]
    /\ adding \in [Turns -> 0 .. created]
    /\ round \in [Turns -> 0 .. MaxToolRounds]
    /\ \A m \in messages : IsMessage(m)
    /\ \A t \in Turns :
          /\ \A i \in DOMAIN request[t] : IsMessage(request[t][i])
          /\ \A m \in snapshot[t] : IsMessage(m)
          /\ todo[t] \subseteq ToolCalls
    /\ gen \in [Turns -> {"none", "reads", "asks"}]
    /\ inFlight \in BOOLEAN /\ mishaps \in 0 .. 1

ChatInit ==
    /\ conv = [exists |-> TRUE, tokens |-> 0, title |-> 0, summaries |-> 0]
    /\ messages = {} /\ created = 0 /\ sent = 0
    /\ phase = [t \in Turns |-> "idle"]
    /\ adding = [t \in Turns |-> 0] /\ round = adding
    /\ request = [t \in Turns |-> <<>>]
    /\ todo = [t \in Turns |-> {}] /\ snapshot = todo
    /\ gen = [t \in Turns |-> "none"] /\ inFlight = FALSE
    /\ mishaps \in 0 .. 1

Ready(t, p) == phase[t] = p /\ adding[t] = 0
Goes(t, p) == phase' = [phase EXCEPT ![t] = p]

\* A turn that is over forgets what it has read.
Over(t) ==
    /\ Goes(t, "idle")
    /\ request' = [request EXCEPT ![t] = <<>>]
    /\ round' = [round EXCEPT ![t] = 0]
    /\ todo' = [todo EXCEPT ![t] = {}]
    /\ snapshot' = [snapshot EXCEPT ![t] = {}]

\* ORDER BY created_at, id
Before(a, b) == a.at < b.at \/ (a.at = b.at /\ a.id < b.id)
Chronological(M) ==
    [i \in 1 .. Cardinality(M) |-> CHOOSE m \in M : Cardinality({k \in M : Before(k, m)}) = i - 1]

UserMessages == {m \in messages : m.role = "user"}

\* AddMessage, first half: the row of the message,
Saves(t, m) ==
    /\ messages' = messages \cup {m}
    /\ created' = created + 1
    /\ adding' = [adding EXCEPT ![t] = created + 1]
    /\ UNCHANGED mishaps

\* which the database may refuse; the message is only in the turn's memory.
Refused ==
    /\ mishaps = 0 /\ mishaps' = 1
    /\ created' = created + 1
    /\ UNCHANGED <<messages, adding>>

AddMessage(t, m) == Saves(t, m) \/ Refused

\* Second half: the tokens of the conversation, and its title when a user
\* message turns out to be the only one.
CountMessage(t) ==
    /\ adding[t] # 0
    /\ LET first == adding[t] \in {m.id : m \in UserMessages} /\ Cardinality(UserMessages) = 1
       IN  conv' = IF conv.exists
                   THEN [conv EXCEPT !.tokens = @ + 1, !.title = IF first THEN adding[t] ELSE @]
                   ELSE conv
    /\ adding' = [adding EXCEPT ![t] = 0]
    /\ UNCHANGED <<messages, created, sent, phase, request, round, todo, snapshot, gen, inFlight, mishaps>>

-----------------------------------------------------------------------------
(* A turn of the agent *)

SendMessage(t) ==
    /\ Ready(t, "idle") /\ sent < MaxSent /\ conv.exists
    /\ sent' = sent + 1
    /\ Goes(t, "checks")
    /\ UNCHANGED <<conv, messages, created, adding, request, round, todo, snapshot, gen, inFlight, mishaps>>

\* The conversation must exist and have room.
CheckTokens(t) ==
    /\ Ready(t, "checks")
    /\ Goes(t, IF conv.exists /\ conv.tokens < Limit THEN "saves" ELSE "idle")
    /\ UNCHANGED <<conv, messages, created, sent, adding, request, round, todo, snapshot, gen, inFlight, mishaps>>

SaveMessage(t) ==
    /\ Ready(t, "saves")
    /\ Saves(t, Message(created + 1, "user", {}, {}, {created + 1}))
    /\ Goes(t, "reads")
    /\ UNCHANGED <<conv, sent, request, round, todo, snapshot, gen, inFlight>>

\* A turn whose user message is not saved is over.
SaveFails(t) ==
    /\ Ready(t, "saves")
    /\ Refused
    /\ Goes(t, "idle")
    /\ UNCHANGED <<conv, sent, request, round, todo, snapshot, gen, inFlight>>

CallsMade(q) == UNION {q[i].calls : i \in DOMAIN q}

\* A plausible error: only an answer to no call at all is taken for stray.
SanitizesUnanswering(q) ==
    [i \in DOMAIN q |-> IF q[i].role = "tool" /\ q[i].answers = {}
                        THEN [q[i] EXCEPT !.role = "system"] ELSE q[i]]

\* SanitizeChatMessages: the answer with an id that no call of a message has is
\* passed off as a message of the system.
Sanitize(q) ==
    [i \in DOMAIN q |-> IF q[i].role = "tool" /\ Ids(q[i].answers) \cap Ids(CallsMade(q)) = {}
                        THEN [q[i] EXCEPT !.role = "system", !.answers = {}] ELSE q[i]]

\* The history is read again with the new message in it.
ReadHistory(t) ==
    /\ Ready(t, "reads")
    /\ IF conv.exists
       THEN /\ request' = [request EXCEPT ![t] = Sanitize(Chronological(messages))]
            /\ Goes(t, IF MaxToolRounds > 0 THEN "asks" ELSE "generates")
       ELSE Goes(t, "idle") /\ UNCHANGED request
    /\ UNCHANGED <<conv, messages, created, sent, adding, round, todo, snapshot, gen, inFlight, mishaps>>

\* The model fails, or answers: the turn saves the answer, or not, and ends.
ChatFails(t) ==
    /\ Ready(t, "asks")
    /\ Over(t)
    /\ UNCHANGED <<conv, messages, created, sent, adding, gen, inFlight, mishaps>>

Answer(t) ==
    /\ Ready(t, "asks")
    /\ AddMessage(t, Message(created + 1, "assistant", {}, {}, {}))
    /\ Goes(t, "decides")
    /\ UNCHANGED <<conv, sent, request, round, todo, snapshot, gen, inFlight>>

\* Or it calls tools: the turn saves the calls, executes one after the other
\* and saves its result; what is not saved is in the turn's own request still.
CallTools(t) ==
    /\ Ready(t, "asks")
    /\ \E k \in 1 .. MaxCalls, numbered \in BOOLEAN :
          LET calls == {Call(created + 1, i, numbered) : i \in 1 .. k}
              m == Message(created + 1, "assistant", calls, {}, {})
          IN  /\ AddMessage(t, m)
              /\ request' = [request EXCEPT ![t] = Append(@, m)]
              /\ todo' = [todo EXCEPT ![t] = calls]
    /\ Goes(t, "tools")
    /\ UNCHANGED <<conv, sent, round, snapshot, gen, inFlight>>

FirstCall(t) == CHOOSE c \in todo[t] : \A d \in todo[t] : c[2] <= d[2]

ExecuteTool(t) ==
    /\ Ready(t, "tools") /\ todo[t] # {}
    /\ LET m == Message(created + 1, "tool", {}, {FirstCall(t)}, {})
       IN  AddMessage(t, m) /\ request' = [request EXCEPT ![t] = Append(@, m)]
    /\ todo' = [todo EXCEPT ![t] = @ \ {FirstCall(t)}]
    /\ UNCHANGED <<conv, sent, phase, round, snapshot, gen, inFlight>>

\* After the last result the model is asked again, unless the rounds are used
\* up: then the turn ends with a message of its own, which it does not save.
NextRound(t) ==
    /\ Ready(t, "tools") /\ todo[t] = {}
    /\ round' = [round EXCEPT ![t] = @ + 1]
    /\ request' = [request EXCEPT ![t] = Sanitize(@)]
    /\ Goes(t, IF round[t] + 1 < MaxToolRounds THEN "asks" ELSE "generates")
    /\ UNCHANGED <<conv, messages, created, sent, adding, todo, snapshot, gen, inFlight, mishaps>>

-----------------------------------------------------------------------------
(* The summary of older messages *)

\* findSafeSummarizeSplit: how many messages of the history q to summarise, so
\* that no answer is parted from its call.  The search walks back from the
\* split to the first message that makes a call with an id answered behind it.
Answered(q, split) == UNION {q[i].answers : i \in split + 1 .. Len(q)}
Parted(q, split) == {i \in 1 .. split : Ids(q[i].calls) \cap Ids(Answered(q, split)) # {}}

\* A plausible error: the split is taken as it is.
SplitAnywhere(q) == IF Len(q) <= KeepRecent THEN 0 ELSE Len(q) - KeepRecent

SafeSplit(q) ==
    LET split == IF Len(q) <= KeepRecent THEN 0 ELSE Len(q) - KeepRecent
        parted == Parted(q, split)
    IN  IF parted = {} THEN split ELSE (CHOOSE i \in parted : \A j \in parted : j <= i) - 1

\* maybeSummarize, and the messages SummarizeOlderMessages reads.
MaybeSummarize(t) ==
    /\ Ready(t, "decides")
    /\ IF conv.exists /\ conv.tokens > Threshold /\ SafeSplit(Chronological(messages)) > 0
       THEN snapshot' = [snapshot EXCEPT ![t] = messages] /\ Goes(t, "summarises")
       ELSE Goes(t, "generates") /\ UNCHANGED snapshot
    /\ UNCHANGED <<conv, messages, created, sent, adding, request, round, todo, gen, inFlight, mishaps>>

SummaryFails(t) ==
    /\ Ready(t, "summarises")
    /\ Goes(t, "generates")
    /\ snapshot' = [snapshot EXCEPT ![t] = {}]
    /\ UNCHANGED <<conv, messages, created, sent, adding, request, round, todo, gen, inFlight, mishaps>>

\* The messages the model has summarised, those before the split.
Summarised(t) ==
    LET q == Chronological(snapshot[t]) IN {q[i] : i \in 1 .. SafeSplit(q)}

Kept(t) == snapshot[t] \ Summarised(t)

\* The messages to delete, and a plausible error: whatever is old by now.
DeletesOlder(t) == {m \in messages : \A k \in Kept(t) : m.at < k.at \/ m.id > k.id}
Deleted(t) == Summarised(t)

\* The summary is put just before the first message that is kept.
SummaryTime(t) ==
    IF Kept(t) = {} THEN 2 * (created + 1) ELSE Chronological(Kept(t))[1].at - 1

\* The model has answered: one transaction deletes what it was shown and puts
\* the summary in its place.
SummarizeOlderMessages(t) ==
    /\ Ready(t, "summarises")
    /\ LET about == UNION {m.about : m \in Summarised(t)}
           s == [Message(created + 1, "system", {}, {}, about) EXCEPT !.at = SummaryTime(t)]
       IN  messages' = (messages \ Deleted(t)) \cup {s}
    /\ created' = created + 1
    /\ snapshot' = [snapshot EXCEPT ![t] = {}]
    /\ Goes(t, "generates")
    /\ UNCHANGED <<conv, sent, adding, request, round, todo, gen, inFlight, mishaps>>

-----------------------------------------------------------------------------
(* The one-line summary of the list of conversations *)

\* maybeGenerateSummary looks at the flag, the row and the messages,
Wanted == ~inFlight /\ conv.exists /\ conv.summaries = 0 /\ Cardinality(UserMessages) >= 2

MaybeGenerateSummary(t) ==
    /\ Ready(t, "generates")
    /\ IF Wanted THEN Goes(t, "launches") /\ UNCHANGED <<request, round, todo, snapshot>>
       ELSE Over(t)
    /\ UNCHANGED <<conv, messages, created, sent, adding, gen, inFlight, mishaps>>

\* and at the flag again before it starts the goroutine.
Launch(t) ==
    /\ Ready(t, "launches")
    /\ Over(t)
    /\ IF inFlight THEN UNCHANGED <<gen, inFlight>>
       ELSE inFlight' = TRUE /\ gen' = [gen EXCEPT ![t] = "reads"]
    /\ UNCHANGED <<conv, messages, created, sent, adding, mishaps>>

Finish(t) == gen' = [gen EXCEPT ![t] = "none"] /\ inFlight' = FALSE
Write == conv' = [conv EXCEPT !.summaries = IF conv.exists THEN @ + 1 ELSE @]

\* A plausible error: the goroutine trusts the one who started it.
GenerateAnyway(t) ==
    /\ gen[t] = "reads" /\ gen' = [gen EXCEPT ![t] = "asks"] /\ UNCHANGED <<conv, inFlight>>

\* The goroutine looks at the row again.  A conversation with a single message
\* would be summed up by its text, but two were counted and no step leaves one
\* user message alone.
GenerateDisplaySummary(t) ==
    /\ gen[t] = "reads"
    /\ UNCHANGED conv
    /\ IF conv.exists /\ conv.summaries = 0 /\ messages # {}
       THEN gen' = [gen EXCEPT ![t] = "asks"] /\ UNCHANGED inFlight
       ELSE Finish(t)

Generate(t) ==
    /\ GenerateDisplaySummary(t)
    /\ UNCHANGED <<messages, created, sent, turnVars, mishaps>>

\* The model's line, or the first user message when it fails, if there was one.
SaveSummary(t) ==
    /\ gen[t] = "asks"
    /\ Write \/ UNCHANGED conv
    /\ Finish(t)
    /\ UNCHANGED <<messages, created, sent, turnVars, mishaps>>

-----------------------------------------------------------------------------
(* The conversation from outside *)

\* DeleteConversation: the messages and the row, in a transaction.
DeleteConversation ==
    /\ conv.exists
    /\ conv' = [conv EXCEPT !.exists = FALSE]
    /\ messages' = {}
    /\ UNCHANGED <<created, sent, turnVars, gen, inFlight, mishaps>>

\* A new chat about the same image deletes the rows that count no token.
CleanupEmptyConversations ==
    /\ conv.exists /\ conv.tokens = 0
    /\ conv' = [conv EXCEPT !.exists = FALSE]
    /\ UNCHANGED <<messages, created, sent, turnVars, gen, inFlight, mishaps>>

Crash ==
    /\ mishaps = 0 /\ mishaps' = 1
    /\ phase' = [t \in Turns |-> "idle"]
    /\ adding' = [t \in Turns |-> 0] /\ round' = adding'
    /\ request' = [t \in Turns |-> <<>>]
    /\ todo' = [t \in Turns |-> {}] /\ snapshot' = todo'
    /\ gen' = [t \in Turns |-> "none"] /\ inFlight' = FALSE
    /\ UNCHANGED <<conv, messages, created, sent>>

TurnSteps(t) ==
    \/ CheckTokens(t) \/ SaveMessage(t) \/ SaveFails(t) \/ CountMessage(t) \/ ReadHistory(t)
    \/ ChatFails(t) \/ Answer(t) \/ CallTools(t) \/ ExecuteTool(t) \/ NextRound(t)
    \/ MaybeSummarize(t) \/ SummaryFails(t) \/ SummarizeOlderMessages(t)
    \/ MaybeGenerateSummary(t) \/ Launch(t) \/ Generate(t) \/ SaveSummary(t)

ChatNext ==
    \/ \E t \in Turns : SendMessage(t) \/ TurnSteps(t)
    \/ DeleteConversation \/ CleanupEmptyConversations \/ Crash
=============================================================================
