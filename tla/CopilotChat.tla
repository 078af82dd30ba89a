---------------------------- MODULE CopilotChat ----------------------------
(***************************************************************************)
(* The AI copilot page (src/frontend/src/app/dashboard/ai-copilot/         *)
(* page.tsx): the conversations it keeps in React state, the answers it    *)
(* streams into them, and the copies the server keeps of both              *)
(* (src/backend/apps/ai_orchestrator/main.py, /ai/conversations).          *)
(*                                                                         *)
(* An action is one JavaScript task: a click, or the continuation of an    *)
(* await when its request is answered, together with the effects React     *)
(* runs after it.  Handlers see the state of the last render, so a handler *)
(* that changes the state and then reads it again reads what was there     *)
(* before.  Contents, titles and agents are left out: a message is who     *)
(* wrote it, which question it is about, and how far it got.               *)
(***************************************************************************)
EXTENDS Naturals, Sequences, FiniteSets

CONSTANTS MaxSends,  \* bound on the questions sent
          MaxConvs,  \* bound on the conversations made in the page
          MaxClicks  \* bound on what the user does

ASSUME CopilotAssumption ==
    MaxSends \in Nat \ {0} /\ MaxConvs \in Nat \ {0} /\ MaxClicks \in Nat

Sends == 1 .. MaxSends
Convs == 1 .. MaxConvs  \* in the order they are made; the list shows the newest first

VARIABLES
    listed,        \* conversations: those in the page's list
    saved,         \* those whose local id was replaced by the server's
    messages,      \* conversations[i].messages
    currentId,     \* the conversation selected, 0 for ''
    made,          \* how many were made so far
    apiAvailable,  \* the page believes the server keeps its conversations
    loading,       \* an answer is being streamed, as far as the page knows
    controller,    \* streamControllerRef: the send whose signal it holds, 0 for null
    send,          \* each call of send()
    pendingDelete, \* the conversation the confirmation dialog asks about
    requests,      \* requests in flight to /ai/conversations
    server,        \* the messages the server has of a conversation
    onServer,      \* the conversations it has
    clicks,        \* what the user did so far
    overtaken,     \* history: a send ended while the controller held another's signal
    moved          \* history: sends whose conversation changed its id under them

ui == <<listed, saved, messages, currentId, made, apiAvailable, loading, controller,
        pendingDelete>>

vars == <<ui, send, requests, server, onServer, clicks, overtaken, moved>>

-----------------------------------------------------------------------------

\* A conversation is known by a local id until the server has given it one.
Ids == [conv : Convs, saved : BOOLEAN]
NoId == [conv |-> 0, saved |-> FALSE]
IdOf(c) == [conv |-> c, saved |-> c \in saved]
Finds(id) == id.conv \in listed /\ id = IdOf(id.conv)

States == {"sent", "pending", "stopped", "done", "failed", "stored"}
Message == [role : {"user", "assistant"}, about : 0 .. MaxSends, state : States,
            text : 0 .. 1]

Question(q) == [role |-> "user", about |-> q, state |-> "sent", text |-> 0]
Answer(s) == [role |-> "assistant", about |-> s, state |-> "pending", text |-> 0]

\* What the server returns of a message posted to it: the text, under the
\* role "user" whoever wrote it, and the reply it generated itself.
Stored(q) == << [role |-> "user", about |-> q, state |-> "stored", text |-> 0],
                [role |-> "assistant", about |-> 0, state |-> "stored", text |-> 0] >>

\* A request about an id the server does not know is refused (404), and so
\* is every PUT, which has no route: one kind stands for all of them.
Request == [kind : {"list", "refused"}]
           \cup [kind : {"create", "get"}, conv : Convs]
           \cup [kind : {"delete"}, id : Ids]
           \cup [kind : {"post"}, conv : Convs, about : 0 .. MaxSends]

Refused == [kind |-> "refused"]

Phases == {"idle", "streaming", "ended"}

Unused == [phase |-> "idle", cancelled |-> FALSE, target |-> NoId,
           typed |-> FALSE, synced |-> FALSE]

TypeOK ==
    /\ listed \subseteq Convs
    /\ saved \subseteq Convs
    /\ messages \in [Convs -> Seq(Message)]
    /\ made \in 0 .. MaxConvs
    /\ currentId \in 0 .. made
    /\ listed \subseteq 1 .. made
    /\ apiAvailable \in BOOLEAN
    /\ loading \in BOOLEAN
    /\ controller \in 0 .. MaxSends
    /\ send \in [Sends -> [phase : Phases, cancelled : BOOLEAN, target : Ids \cup {NoId},
                           typed : BOOLEAN, synced : BOOLEAN]]
    /\ pendingDelete \in Ids \cup {NoId}
    /\ requests \subseteq Request
    /\ server \in [Convs -> Seq(Message)]
    /\ onServer \subseteq saved
    /\ clicks \in 0 .. MaxClicks
    /\ overtaken \in BOOLEAN
    /\ moved \subseteq Sends

\* Once the list asked for by the mount was answered, which always leaves it
\* empty (ListAnswered); what a late answer does, Refresh does again.
Init ==
    /\ listed = {}
    /\ saved = {}
    /\ messages = [c \in Convs |-> <<>>]
    /\ currentId = 0
    /\ made = 0
    /\ apiAvailable \in BOOLEAN
    /\ loading = FALSE
    /\ controller = 0
    /\ send = [s \in Sends |-> Unused]
    /\ pendingDelete = NoId
    /\ requests = {}
    /\ server = [c \in Convs |-> <<>>]
    /\ onServer = {}
    /\ clicks = 0
    /\ overtaken = FALSE
    /\ moved = {}

-----------------------------------------------------------------------------
(* What React does after a task that changed conversations or currentId.   *)

\* conversations[0], the one made last: a set of one, or of none.
Newest(cs) == {c \in cs : \A d \in cs : d <= c}

\* Mutant: no such effect.
ReselectNothing(cs, c) == {c}

\* The selection after the effect that selects conversations[0] when the one
\* selected is not there.
Reselect(cs, c) == IF cs = {} \/ c \in cs THEN {c} ELSE Newest(cs)

\* The effect that loads the messages of the selected conversation whenever
\* it shows none, given the list, the ids, the messages and the selection
\* after the task.
LoadIfEmpty(cs, sv, ms, cur) ==
    {IF c \in sv THEN [kind |-> "get", conv |-> c] ELSE Refused :
        c \in {d \in {cur} \cap cs : ms[d] = <<>>}}

\* What is left of the messages when the list is cs.
Only(cs) == [c \in Convs |-> IF c \in cs THEN messages[c] ELSE <<>>]

-----------------------------------------------------------------------------
(* Conversations.                                                          *)

\* Mutant: selects the one after the last it made.
EnsureOneAhead(n) ==
    /\ made + n <= MaxConvs
    /\ made' = made + n
    /\ listed' = listed \cup (made + 1 .. made + n)
    /\ currentId' = made + n + 1

\* ensureConversation, called n times by one handler: the list its closure
\* sees does not have the first one when it makes the second.
EnsureConversation(n) ==
    /\ made + n <= MaxConvs
    /\ made' = made + n
    /\ listed' = listed \cup (made + 1 .. made + n)
    /\ currentId' = made + n

Creates(n) == IF apiAvailable
              THEN [kind : {"create"}, conv : made + 1 .. made + n]
              ELSE {}

\* How many conversations send() makes before it looks at the text: none if
\* the selected one is in the list, one if it is not, two if none is selected.
Wanted == IF currentId = 0 THEN 2 ELSE IF currentId \in listed THEN 0 ELSE 1

NoDialog == pendingDelete = NoId

NewConversation ==
    /\ NoDialog
    /\ EnsureConversation(1)
    /\ requests' = requests \cup Creates(1) \cup LoadIfEmpty(listed', saved, messages, currentId')
    /\ UNCHANGED <<saved, messages, apiAvailable, loading, controller, pendingDelete,
                   send, server, onServer, overtaken, moved>>

SelectConversation(c) ==
    /\ NoDialog
    /\ c \in listed \ {currentId}
    /\ currentId' = c
    /\ UNCHANGED <<listed, saved, messages, made>>
    /\ requests' = requests \cup LoadIfEmpty(listed, saved, messages, currentId')
    /\ UNCHANGED <<apiAvailable, loading, controller, pendingDelete, send, server, onServer,
                   overtaken, moved>>

\* Enter in an empty input: the conversations are made before the text is looked at.
SubmitEmpty ==
    /\ NoDialog /\ ~loading
    /\ Wanted > 0
    /\ EnsureConversation(Wanted)
    /\ UNCHANGED <<saved, messages>>
    /\ requests' = requests \cup Creates(Wanted)
                   \cup LoadIfEmpty(listed', saved, messages, currentId')
    /\ UNCHANGED <<apiAvailable, loading, controller, pendingDelete, send, server, onServer,
                   overtaken, moved>>

-----------------------------------------------------------------------------
(* Asking.                                                                 *)

\* The calls of send() are numbered in their order.
IsNext(s) == send[s].phase = "idle" /\ \A r \in 1 .. s - 1 : send[r].phase # "idle"

Begin(s, target, typed) ==
    /\ loading' = TRUE
    /\ controller' = s
    /\ send' = [send EXCEPT ![s] = [phase |-> "streaming", cancelled |-> FALSE,
                                    target |-> target, typed |-> typed,
                                    synced |-> apiAvailable]]

\* A message is posted under the id the conversation had when send() was called.
Post(id, q) == IF id.saved THEN [kind |-> "post", conv |-> id.conv, about |-> q] ELSE Refused

Posts(id, q) == IF apiAvailable THEN {Post(id, q)} ELSE {}

\* send() with a text.  The messages go to the conversation with the id that
\* was selected or made first, on top of those of the one found or made last.
Ask(s) ==
    LET target == IF currentId = 0 THEN [conv |-> made + 1, saved |-> FALSE]
                                   ELSE IdOf(currentId)
    IN  /\ NoDialog /\ ~loading /\ IsNext(s)
        /\ IF Wanted = 0 THEN UNCHANGED <<listed, made, currentId>>
                         ELSE EnsureConversation(Wanted)
        /\ messages' = IF target.conv \in listed'
                       THEN [messages EXCEPT ![target.conv] = @ \o <<Question(s), Answer(s)>>]
                       ELSE messages
        /\ Begin(s, target, TRUE)
        /\ saved' = saved
        /\ requests' = requests \cup Creates(Wanted) \cup Posts(target, s)
                       \cup LoadIfEmpty(listed', saved, messages', currentId')
        /\ UNCHANGED <<apiAvailable, pendingDelete, server, onServer, overtaken, moved>>

\* The assistant message that offers to be generated again.
Regenerable(ms, i) ==
    /\ ms[i].role = "assistant" /\ ms[i].state \notin {"pending", "failed"}
    /\ \A j \in i + 1 .. Len(ms) : ms[j].role = "user" \/ ms[j].state \in {"pending", "failed"}

\* handleMessageRegenerate: the question is appended once more, and not posted.
Regenerate(s) ==
    LET ms == messages[currentId]
    IN  /\ NoDialog /\ ~loading /\ IsNext(s)
        /\ currentId \in listed
        /\ \E i \in 2 .. Len(ms) :
              /\ Regenerable(ms, i)
              /\ ms[i - 1].role = "user"
              /\ messages' = [messages EXCEPT ![currentId] =
                                 SubSeq(ms, 1, i - 1) \o <<ms[i - 1], Answer(s)>>]
        /\ Begin(s, IdOf(currentId), FALSE)
        /\ UNCHANGED <<listed, saved, currentId, made, apiAvailable, pendingDelete,
                       requests, server, onServer, overtaken, moved>>

\* handleMessageEdit of the user's message i.  The first is changed in place;
\* a later one is cut off with all that follows.
Edit ==
    LET ms == messages[currentId]
    IN  /\ NoDialog
        /\ currentId \in listed
        /\ \E i \in {j \in 1 .. Len(ms) : ms[j].role = "user"} :
              /\ i > 1 => ms[i - 1].role = "assistant" \/ loading
              /\ messages' = [messages EXCEPT ![currentId] =
                                 IF i = 1 THEN [ms EXCEPT ![1].about = 0]
                                          ELSE SubSeq(ms, 1, i - 1)]
        /\ UNCHANGED <<listed, saved, currentId, made, apiAvailable, loading, controller,
                       pendingDelete, send, requests, server, onServer, overtaken, moved>>

\* When the cut leaves a question at the end, send() asks it again, on top of
\* the messages before the edit.
EditAndAsk(s) ==
    LET ms == messages[currentId]
    IN  /\ NoDialog /\ ~loading /\ IsNext(s)
        /\ currentId \in listed
        /\ \E i \in 2 .. Len(ms) : ms[i].role = "user" /\ ms[i - 1].role = "user"
        /\ messages' = [messages EXCEPT ![currentId] = ms \o <<Question(s), Answer(s)>>]
        /\ Begin(s, IdOf(currentId), TRUE)
        /\ requests' = requests \cup Posts(IdOf(currentId), s)
        /\ UNCHANGED <<listed, saved, currentId, made, apiAvailable, pendingDelete,
                       server, onServer, overtaken, moved>>

-----------------------------------------------------------------------------
(* The stream of an answer.                                                *)

Streaming == {s \in Sends : send[s].phase = "streaming"}

Live == {s \in Streaming : ~send[s].cancelled}

IsAnswer(m, s) == m.role = "assistant" /\ m.about = s

\* Mutant: the catch leaves the message alone.
ReplaceIfDone(ms, s, state, text) ==
    [i \in DOMAIN ms |-> IF state = "done" /\ IsAnswer(ms[i], s)
                         THEN [ms[i] EXCEPT !.state = state, !.text = text]
                         ELSE ms[i]]

\* c.messages.map(...): what it makes of the answer to s.
Replace(ms, s, state, text) ==
    [i \in DOMAIN ms |-> IF IsAnswer(ms[i], s)
                         THEN [ms[i] EXCEPT !.state = state, !.text = text]
                         ELSE ms[i]]

Grow(ms, s) == [i \in DOMAIN ms |-> IF IsAnswer(ms[i], s) THEN [ms[i] EXCEPT !.text = 1]
                                                          ELSE ms[i]]

\* Mutant: "streaming" is cleared, "pending" is not.
MarkNothing(ms, s) == ms

MarkStopped(ms, s) ==
    [i \in DOMAIN ms |-> IF IsAnswer(ms[i], s) /\ ms[i].state = "pending"
                         THEN [ms[i] EXCEPT !.state = "stopped"] ELSE ms[i]]

\* Mutant: the chunks of a stopped stream are still added.
DeltaAnyway(s) ==
    LET id == send[s].target
    IN  /\ s \in Streaming
        /\ Finds(id)
        /\ messages' = [messages EXCEPT ![id.conv] = Grow(@, s)]
        /\ UNCHANGED <<clicks, listed, saved, currentId, made, apiAvailable, loading,
                       controller, pendingDelete, send, server, onServer, overtaken, moved>>
        /\ requests' = requests

\* onDelta: the first chunk makes the text longer, and so does every later one.
Delta(s) ==
    LET id == send[s].target
    IN  /\ s \in Live
        /\ Finds(id)
        /\ messages' = [messages EXCEPT ![id.conv] = Grow(@, s)]
        /\ UNCHANGED <<clicks, listed, saved, currentId, made, apiAvailable, loading, controller,
                       pendingDelete, send, server, onServer, overtaken, moved>>
        /\ requests' = requests \cup LoadIfEmpty(listed, saved, messages', currentId)

\* Mutant: the signal is never told.
CancelledNot(s) == send

Cancelled(s) == IF s = 0 THEN send ELSE [send EXCEPT ![s].cancelled = TRUE]

\* stopStreaming: offered while loading.
Stop ==
    /\ NoDialog /\ loading
    /\ send' = Cancelled(controller)
    /\ messages' = [c \in Convs |-> IF c \in listed THEN MarkStopped(messages[c], controller)
                                                    ELSE messages[c]]
    /\ loading' = FALSE
    /\ requests' = requests \cup (IF messages' = messages THEN {}
                                ELSE LoadIfEmpty(listed, saved, messages', currentId))
    /\ UNCHANGED <<listed, saved, currentId, made, apiAvailable, controller,
                   pendingDelete, server, onServer, overtaken, moved>>

\* Mutant: a stopped stream that ends writes its answer like any other.
EndAnyway(s) ==
    LET id == send[s].target
    IN  /\ s \in Streaming
        /\ send' = [send EXCEPT ![s] = [Unused EXCEPT !.phase = "ended"]]
        /\ controller' = 0
        /\ loading' = FALSE
        /\ overtaken' = (overtaken \/ controller \notin {0, s})
        /\ \E state \in {"done", "failed"} :
              messages' = IF Finds(id)
                          THEN [messages EXCEPT ![id.conv] = Replace(@, s, state, 1)]
                          ELSE messages
        /\ UNCHANGED <<clicks, listed, saved, currentId, made, apiAvailable, pendingDelete,
                       server, onServer, moved, requests>>

\* The stream ends, with an answer or an error, and the rest of send() runs.
\* A cancelled one leaves the messages alone; every one runs the finally.
End(s) ==
    LET id == send[s].target
    IN  /\ s \in Streaming
        /\ send' = [send EXCEPT ![s] = [Unused EXCEPT !.phase = "ended"]]
        /\ controller' = 0
        /\ loading' = FALSE
        /\ overtaken' = (overtaken \/ controller \notin {0, s})
        /\ UNCHANGED <<clicks, listed, saved, currentId, made, apiAvailable, pendingDelete,
                       server, onServer, moved>>
        /\ \/ /\ send[s].cancelled
              /\ UNCHANGED <<messages, requests>>
           \/ /\ ~send[s].cancelled
              /\ \E state \in {"done", "failed"} :
                    messages' = IF Finds(id)
                                THEN [messages EXCEPT ![id.conv] = Replace(@, s, state, 1)]
                                ELSE messages
              /\ requests' = requests
                    \cup (IF send[s].synced THEN {Post(id, 0)}
                                            ELSE {})
                    \cup (IF Finds(id) THEN LoadIfEmpty(listed, saved, messages', currentId) ELSE {})

-----------------------------------------------------------------------------
(* Deleting and renaming.                                                  *)

DeleteConversation(c) ==
    /\ NoDialog
    /\ c \in listed
    /\ pendingDelete' = IdOf(c)
    /\ UNCHANGED <<listed, saved, messages, currentId, made, apiAvailable, loading,
                   controller, send, requests, server, onServer, overtaken, moved>>

CancelDelete ==
    /\ pendingDelete # NoId
    /\ pendingDelete' = NoId
    /\ UNCHANGED <<listed, saved, messages, currentId, made, apiAvailable, loading,
                   controller, send, requests, server, onServer, overtaken, moved>>

\* confirmDelete up to its request: the dialog stays until that is answered.
ConfirmDelete ==
    LET c == pendingDelete.conv
    IN  /\ pendingDelete # NoId
        /\ listed' = IF Finds(pendingDelete) THEN listed \ {c} ELSE listed
        /\ currentId' \in IF pendingDelete # IdOf(currentId) THEN Reselect(listed', currentId)
                         ELSE IF listed' = {} THEN {0} ELSE Newest(listed')
        /\ messages' = Only(listed')
        /\ UNCHANGED <<saved, made>>
        /\ requests' = requests \cup LoadIfEmpty(listed', saved, messages', currentId')
                       \cup (IF apiAvailable THEN {[kind |-> "delete", id |-> pendingDelete]}
                                             ELSE {})
        /\ pendingDelete' = IF apiAvailable THEN pendingDelete ELSE NoId
        /\ UNCHANGED <<apiAvailable, loading, controller, send, server, onServer, overtaken, moved>>

Rename ==
    /\ NoDialog
    /\ listed # {}
    /\ UNCHANGED <<saved, messages, listed, currentId>>
    /\ requests' = requests \cup LoadIfEmpty(listed, saved, messages, currentId)
                   \cup (IF apiAvailable THEN {Refused} ELSE {})
    /\ UNCHANGED <<made, apiAvailable, loading, controller, pendingDelete, send,
                   server, onServer, overtaken, moved>>

\* "Refresh" and "Local only - retry".
Refresh ==
    /\ NoDialog
    /\ requests' = requests \cup {[kind |-> "list"]}
    /\ UNCHANGED <<ui, send, server, onServer, overtaken, moved>>

-----------------------------------------------------------------------------
(* The answers of the server.  A request that fails, by a timeout for one, *)
(* may still have been carried out.                                        *)

Answered(r) == r \in requests

\* The server answers {data, total}; the page looks for "conversations" and
\* finds none.  An error empties the list as well.
ListAnswered ==
    /\ Answered([kind |-> "list"])
    /\ listed' = {}
    /\ messages' = Only({})
    /\ apiAvailable' \in BOOLEAN
    /\ requests' = requests \ {[kind |-> "list"]}
    /\ UNCHANGED <<clicks, saved, currentId, made, loading, controller, pendingDelete, send,
                   server, onServer, overtaken, moved>>

\* The conversation gets the id of the server, and is selected.
CreateAnswered(c) ==
    LET r == [kind |-> "create", conv |-> c]
    IN  /\ Answered(r)
        /\ \/ /\ saved' = saved \cup {c}
              /\ onServer' = onServer \cup {c}
              /\ currentId' \in Reselect(listed, c)
              /\ moved' = moved \cup {s \in Streaming : send[s].target = [conv |-> c, saved |-> FALSE]}
              /\ UNCHANGED <<messages, listed, apiAvailable>>
              /\ requests' = (requests \ {r}) \cup LoadIfEmpty(listed, saved', messages, currentId')
           \/ /\ apiAvailable' = FALSE
              /\ requests' = requests \ {r}
              /\ UNCHANGED <<saved, onServer, currentId, moved, messages, listed>>
        /\ UNCHANGED <<clicks, made, loading, controller, pendingDelete, send, server, overtaken>>

\* The messages of the server replace those of the page, whatever was added
\* to them since they were asked for.
GetAnswered(c) ==
    LET r == [kind |-> "get", conv |-> c]
    IN  /\ Answered(r)
        /\ UNCHANGED <<listed, saved, currentId>>
        /\ \/ /\ c \in onServer
              /\ messages' = IF c \in listed THEN [messages EXCEPT ![c] = server[c]]
                                            ELSE messages
              /\ apiAvailable' = TRUE
              /\ requests' = (requests \ {r}) \cup LoadIfEmpty(listed, saved, messages', currentId)
           \/ /\ apiAvailable' = FALSE
              /\ requests' = requests \ {r}
              /\ UNCHANGED messages
        /\ UNCHANGED <<clicks, made, loading, controller, pendingDelete, send, server, onServer,
                       overtaken, moved>>

PostAnswered(c, q) ==
    LET r == [kind |-> "post", conv |-> c, about |-> q]
        stored == [server EXCEPT ![c] = @ \o Stored(q)]
    IN  /\ Answered(r)
        /\ \/ /\ c \in onServer
              /\ server' = stored
              /\ apiAvailable' \in {apiAvailable, FALSE}
           \/ /\ server' = server
              /\ apiAvailable' = FALSE
        /\ requests' = requests \ {r}
        /\ UNCHANGED <<clicks, listed, saved, messages, currentId, made, loading, controller,
                       pendingDelete, send, onServer, overtaken, moved>>

DeleteAnswered(id) ==
    LET r == [kind |-> "delete", id |-> id]
    IN  /\ Answered(r)
        /\ \/ /\ id.saved /\ id.conv \in onServer
              /\ onServer' = onServer \ {id.conv}
              /\ apiAvailable' \in {apiAvailable, FALSE}
           \/ /\ onServer' = onServer
              /\ apiAvailable' = FALSE
        /\ pendingDelete' = NoId
        /\ requests' = requests \ {r}
        /\ UNCHANGED <<clicks, listed, saved, messages, currentId, made, loading, controller,
                       send, server, overtaken, moved>>

RefusedAnswered ==
    /\ Answered(Refused)
    /\ apiAvailable' = FALSE
    /\ requests' = requests \ {Refused}
    /\ UNCHANGED <<clicks, listed, saved, messages, currentId, made, loading, controller,
                   pendingDelete, send, server, onServer, overtaken, moved>>

-----------------------------------------------------------------------------

User ==
    /\ clicks < MaxClicks
    /\ clicks' = clicks + 1
    /\ \/ NewConversation
       \/ \E c \in Convs : SelectConversation(c) \/ DeleteConversation(c)
       \/ \E s \in Sends : Ask(s) \/ Regenerate(s) \/ EditAndAsk(s)
       \/ SubmitEmpty \/ Edit \/ Stop
       \/ CancelDelete \/ ConfirmDelete \/ Rename \/ Refresh

\* An answer of the server arrives, or the page gives it up.
Answers ==
    \/ ListAnswered \/ RefusedAnswered
    \/ \E c \in Convs : CreateAnswered(c) \/ GetAnswered(c)
    \/ \E id \in Ids : DeleteAnswered(id)
    \/ \E c \in Convs, q \in 0 .. MaxSends : PostAnswered(c, q)

Next == User \/ Answers \/ \E s \in Sends : Delta(s) \/ End(s)

Spec == Init /\ [][Next]_vars

\* A stream ends by itself or by its 60 s timeout, and a request by its 30 s
\* one; nothing makes the user do anything.
FairSpec == Spec /\ \A s \in Sends : WF_vars(End(s))

ServedSpec == FairSpec /\ WF_vars(Answers)

-----------------------------------------------------------------------------
(* Properties.                                                             *)

\* The page shows "Stop" and refuses a question exactly while an answer is
\* being streamed, and one at a time, and "Stop" reaches it: unless a stopped
\* stream ended late, when its finally cleared what belongs to the next one.
OneStreamUnlessOvertaken ==
    ~overtaken => /\ Live \subseteq {controller}
                  /\ loading <=> Live # {}

\* A message is shown as pending only while its stream can still end it:
\* unless its conversation got the id of the server meanwhile, when the
\* stream no longer finds it.
PendingIsLive ==
    \A c \in listed : \A i \in DOMAIN messages[c] :
        messages[c][i].state = "pending" => messages[c][i].about \in Live \cup moved

\* The conversation selected is one of the list, whatever was deleted, created
\* late or refreshed: the page never shows a conversation that is gone while it
\* has others to show.  (What is written goes elsewhere at times: a first
\* question and the chunks of a stream may land in one that is not selected.)
SelectedIsListed == listed # {} => currentId \in listed

\* What was stopped stays as it was: no chunk and no final answer reaches it.
StoppedStays ==
    [][\A c \in Convs : \A i \in DOMAIN messages[c] \cap DOMAIN messages'[c] :
          LET m == messages[c][i]
          IN  m.state = "stopped" /\ IsAnswer(messages'[c][i], m.about)
                => messages'[c][i] = m]_vars

Pending(s) == \E c \in listed : \E i \in DOMAIN messages[c] :
                  IsAnswer(messages[c][i], s) /\ messages[c][i].state = "pending"

\* A pending answer is decided in the end (answered, failed, stopped or gone
\* with its conversation), unless its conversation changed its id.
PendingIsDecided == \A s \in Sends : Pending(s) ~> ~Pending(s) \/ s \in moved

AnswersIn(ms, s) == {i \in DOMAIN ms : IsAnswer(ms[i], s)}

AnswerStates(s) ==
    UNION {{messages[c][i].state : i \in AnswersIn(messages[c], s)} : c \in Convs}

\* How the conversations show the answer to a question, for AnswerLifecycle.
ShownAs(s) ==
    LET states == AnswerStates(s)
    IN  IF send[s].phase = "idle" THEN "none"
        ELSE IF states = {} THEN "gone"
        ELSE CHOOSE state \in states : TRUE

ShownAnswers == [s \in Sends |-> ShownAs(s)]

Lifecycle == INSTANCE AnswerLifecycle WITH Questions <- Sends, shown <- ShownAnswers

\* Whatever is stopped, deleted, renamed, cut off, generated again or answered
\* late, the page implements the life cycle of an answer: one that was decided
\* is never decided otherwise, and one that was removed does not come back.
AnswersDecidedOnce == Lifecycle!Spec

\* tests/e2e/ai-copilot.spec.ts: "sending a message adds the user message to
\* the conversation": the one on the screen shows it, at once or in the end.
QuestionShown(s) ==
    /\ currentId \in listed
    /\ \E i \in DOMAIN messages[currentId] :
          messages[currentId][i].role = "user" /\ messages[currentId][i].about = s
AskedIsShown ==
    \A s \in Sends : send[s].typed /\ send[s].phase = "streaming" ~> QuestionShown(s)

=============================================================================
