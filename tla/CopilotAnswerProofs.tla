------------------------- MODULE CopilotAnswerProofs -------------------------
(***************************************************************************)
(* The copilot page implements the life cycle of an answer, for any number *)
(* of questions, conversations and clicks.                                 *)
(***************************************************************************)
EXTENDS CopilotChatProofs

\* The answer to s is message i of conversation c.
AnswerAt(c, i, s) ==
    c \in Convs /\ i \in 1 .. Len(messages[c]) /\ IsAnswer(messages[c][i], s)

\* An answer is in one place, its question was asked, and it is pending as
\* long as its stream is not told to stop.
AnsweredOnce ==
    \A s \in Sends, c, d \in Convs : \A i \in 1 .. Len(messages[c]), j \in 1 .. Len(messages[d]) :
        AnswerAt(c, i, s) /\ AnswerAt(d, j, s) => c = d /\ i = j

AnswersBegun ==
    \A s \in Sends, c \in Convs : \A i \in 1 .. Len(messages[c]) :
        AnswerAt(c, i, s) =>
            /\ send[s].phase # "idle"
            /\ messages[c][i].state \in {"pending", "stopped", "done", "failed"}
            /\ s \in Live => messages[c][i].state = "pending"

AInv == IInv /\ AnsweredOnce /\ AnswersBegun

-----------------------------------------------------------------------------
(* What the mapping gives.                                                 *)

Showing ==
    \A s \in Sends :
        /\ send[s].phase = "idle" => ShownAs(s) = "none"
        /\ \A c \in Convs : \A i \in 1 .. Len(messages[c]) :
              AnswerAt(c, i, s) => ShownAs(s) = messages[c][i].state
        /\ send[s].phase # "idle" /\ (\A c \in Convs : \A i \in 1 .. Len(messages[c]) :
                                         ~AnswerAt(c, i, s))
              => ShownAs(s) = "gone"

LEMMA MappingShows == AInv => Showing
  <1> SUFFICES ASSUME AInv, NEW s \in Sends
               PROVE  /\ send[s].phase = "idle" => ShownAs(s) = "none"
                      /\ \A c \in Convs : \A i \in 1 .. Len(messages[c]) :
                            AnswerAt(c, i, s) => ShownAs(s) = messages[c][i].state
                      /\ send[s].phase # "idle" /\ (\A c \in Convs : \A i \in 1 .. Len(messages[c]) :
                                                       ~AnswerAt(c, i, s))
                            => ShownAs(s) = "gone"
    BY DEF Showing
  <1>1. send[s].phase = "idle" => ShownAs(s) = "none"
    BY DEF ShownAs
  <1>2. \A c \in Convs : DOMAIN messages[c] = 1 .. Len(messages[c])
    BY MessagesTyped DEF AInv, IInv
  <1>3. \A state : state \in AnswerStates(s) <=>
           \E c \in Convs : \E i \in 1 .. Len(messages[c]) :
               AnswerAt(c, i, s) /\ state = messages[c][i].state
    <2>1. \A c \in Convs : AnswersIn(messages[c], s) =
             {i \in 1 .. Len(messages[c]) : IsAnswer(messages[c][i], s)}
      BY <1>2 DEF AnswersIn
    <2>2. \A state : state \in AnswerStates(s) <=>
             \E c \in Convs : state \in {messages[c][i].state : i \in AnswersIn(messages[c], s)}
      BY DEF AnswerStates
    <2> QED BY <2>1, <2>2 DEF AnswerAt
  <1>4. ASSUME NEW c \in Convs, NEW i \in 1 .. Len(messages[c]), AnswerAt(c, i, s)
        PROVE  ShownAs(s) = messages[c][i].state
    <2>1. AnswerStates(s) = {messages[c][i].state}
      <3>1. \A state \in AnswerStates(s) : state = messages[c][i].state
        BY <1>3, <1>4 DEF AInv, AnsweredOnce
      <3> QED BY <1>3, <1>4, <3>1
    <2>2. send[s].phase # "idle"
      BY <1>4 DEF AInv, AnswersBegun
    <2>3. (CHOOSE state \in AnswerStates(s) : TRUE) = messages[c][i].state
      BY <2>1
    <2> QED BY <2>1, <2>2, <2>3 DEF ShownAs
  <1>5. ASSUME send[s].phase # "idle",
               \A c \in Convs : \A i \in 1 .. Len(messages[c]) : ~AnswerAt(c, i, s)
        PROVE  ShownAs(s) = "gone"
    <2>1. AnswerStates(s) = {}
      BY <1>3, <1>5
    <2> QED BY <1>5, <2>1 DEF ShownAs
  <1> QED BY <1>1, <1>4, <1>5

LEMMA MappingShowsNext == AInv' => Showing'
  BY MappingShows, PTL

-----------------------------------------------------------------------------
(* The kinds of steps.                                                     *)

Begun(s) == send[s].phase # "idle"

\* The answers there are were there before, as they were.
LEMMA CarriedStep ==
  ASSUME AInv, IInv', Live' \subseteq Live, \A s \in Sends : Begun(s)' = Begun(s),
         \A s \in Sends, c \in Convs : \A i \in 1 .. Len(messages'[c]) :
            AnswerAt(c, i, s)' => /\ AnswerAt(c, i, s)
                                  /\ messages'[c][i].state = messages[c][i].state
  PROVE  AInv' /\ [Lifecycle!Next]_ShownAnswers
  <1>1. AnsweredOnce'
    <2> SUFFICES ASSUME NEW s \in Sends, NEW c \in Convs, NEW d \in Convs,
                        NEW i \in 1 .. Len(messages'[c]), NEW j \in 1 .. Len(messages'[d]),
                        AnswerAt(c, i, s)', AnswerAt(d, j, s)'
                 PROVE  c = d /\ i = j
      BY DEF AnsweredOnce
    <2>1. AnswerAt(c, i, s) /\ AnswerAt(d, j, s)
      OBVIOUS
    <2> QED BY <2>1 DEF AInv, AnsweredOnce, AnswerAt
  <1>2. AnswersBegun'
    <2> SUFFICES ASSUME NEW s \in Sends, NEW c \in Convs, NEW i \in 1 .. Len(messages'[c]),
                        AnswerAt(c, i, s)'
                 PROVE  /\ send'[s].phase # "idle"
                        /\ messages'[c][i].state \in {"pending", "stopped", "done", "failed"}
                        /\ s \in Live' => messages'[c][i].state = "pending"
      BY DEF AnswersBegun
    <2>1. AnswerAt(c, i, s) /\ messages'[c][i].state = messages[c][i].state
      OBVIOUS
    <2> QED BY <2>1 DEF AInv, AnswersBegun, AnswerAt, Begun
  <1>3. AInv'
    BY <1>1, <1>2 DEF AInv
  <1>4. Showing /\ Showing'
    BY <1>3, MappingShows, MappingShowsNext
  <1> DEFINE Q == {s \in Sends : ShownAs(s)' # ShownAs(s)}
  <1>5. ASSUME NEW s \in Q
        PROVE  ShownAs(s) \in {"pending", "stopped", "done", "failed"} /\ ShownAs(s)' = "gone"
    <2>1. Begun(s) /\ Begun(s)'
      BY <1>4 DEF Showing, Begun
    <2>2. ASSUME NEW c \in Convs, NEW i \in 1 .. Len(messages'[c]), AnswerAt(c, i, s)'
          PROVE  FALSE
      <3>1. AnswerAt(c, i, s) /\ messages'[c][i].state = messages[c][i].state
        BY <2>2
      <3> QED BY <1>4, <2>2, <3>1 DEF Showing, AnswerAt
    <2>3. ShownAs(s)' = "gone"
      BY <1>4, <2>1, <2>2 DEF Showing, Begun
    <2>4. \E c \in Convs : \E i \in 1 .. Len(messages[c]) : AnswerAt(c, i, s)
      BY <1>4, <2>1, <2>3 DEF Showing, Begun
    <2> QED BY <1>4, <2>3, <2>4 DEF Showing, AInv, AnswersBegun
  <1>6. Q \subseteq Lifecycle!OnThePage
    BY <1>5 DEF Lifecycle!OnThePage, Lifecycle!Decisions, ShownAnswers
  <1>7. ShownAnswers' = Lifecycle!Without(Q)
    <2>1. \A s \in Sends : ShownAs(s)' = IF s \in Q THEN "gone" ELSE ShownAs(s)
      BY <1>5
    <2> QED BY <2>1, Zenon DEF Lifecycle!Without, ShownAnswers
  <1>8. Lifecycle!Remove
    BY <1>6, <1>7 DEF Lifecycle!Remove
  <1> QED BY <1>3, <1>8 DEF Lifecycle!Next

\* The answers stay where they are, and none but that to s changes its state.
LEMMA DecidedStep ==
  ASSUME AInv, IInv', NEW s \in Sends, Live' \subseteq Live \ {s},
         \A r \in Sends : Begun(r)' = Begun(r),
         \A c \in Convs : Len(messages'[c]) = Len(messages[c]),
         \A r \in Sends, c \in Convs : \A i \in 1 .. Len(messages[c]) :
            /\ AnswerAt(c, i, r)' <=> AnswerAt(c, i, r)
            /\ AnswerAt(c, i, r) =>
                  \/ messages'[c][i].state = messages[c][i].state
                  \/ /\ r = s /\ messages[c][i].state = "pending"
                     /\ messages'[c][i].state \in {"stopped", "done", "failed"}
  PROVE  AInv' /\ [Lifecycle!Next]_ShownAnswers
  <1>1. AnsweredOnce'
    <2> SUFFICES ASSUME NEW r \in Sends, NEW c \in Convs, NEW d \in Convs,
                        NEW i \in 1 .. Len(messages'[c]), NEW j \in 1 .. Len(messages'[d]),
                        AnswerAt(c, i, r)', AnswerAt(d, j, r)'
                 PROVE  c = d /\ i = j
      BY DEF AnsweredOnce
    <2>1. i \in 1 .. Len(messages[c]) /\ j \in 1 .. Len(messages[d])
      OBVIOUS
    <2>2. AnswerAt(c, i, r) /\ AnswerAt(d, j, r)
      BY <2>1
    <2> QED BY <2>1, <2>2 DEF AInv, AnsweredOnce
  <1>2. AnswersBegun'
    <2> SUFFICES ASSUME NEW r \in Sends, NEW c \in Convs, NEW i \in 1 .. Len(messages'[c]),
                        AnswerAt(c, i, r)'
                 PROVE  /\ send'[r].phase # "idle"
                        /\ messages'[c][i].state \in {"pending", "stopped", "done", "failed"}
                        /\ r \in Live' => messages'[c][i].state = "pending"
      BY DEF AnswersBegun
    <2>1. i \in 1 .. Len(messages[c])
      OBVIOUS
    <2>2. AnswerAt(c, i, r)
      BY <2>1
    <2>3. /\ Begun(r)
          /\ messages[c][i].state \in {"pending", "stopped", "done", "failed"}
          /\ r \in Live => messages[c][i].state = "pending"
      BY <2>1, <2>2 DEF AInv, AnswersBegun, Begun
    <2> QED BY <2>1, <2>2, <2>3 DEF Begun
  <1>3. AInv'
    BY <1>1, <1>2 DEF AInv
  <1>4. Showing /\ Showing'
    BY <1>3, MappingShows, MappingShowsNext
  <1>5. ASSUME NEW r \in Sends
        PROVE  \/ ShownAs(r)' = ShownAs(r)
               \/ r = s /\ ShownAs(r) = "pending" /\ ShownAs(r)' \in {"stopped", "done", "failed"}
    <2>1. CASE ~Begun(r)
      BY <1>4, <2>1 DEF Showing, Begun
    <2>2. ASSUME NEW c \in Convs, NEW i \in 1 .. Len(messages[c]), AnswerAt(c, i, r)
          PROVE  \/ ShownAs(r)' = ShownAs(r)
                 \/ r = s /\ ShownAs(r) = "pending" /\ ShownAs(r)' \in {"stopped", "done", "failed"}
      <3>1. AnswerAt(c, i, r)' /\ i \in 1 .. Len(messages'[c])
        BY <2>2
      <3>2. ShownAs(r) = messages[c][i].state /\ ShownAs(r)' = messages'[c][i].state
        BY <1>4, <2>2, <3>1 DEF Showing
      <3> QED BY <2>2, <3>2
    <2>3. CASE Begun(r) /\ \A c \in Convs : \A i \in 1 .. Len(messages[c]) : ~AnswerAt(c, i, r)
      <3>1. \A c \in Convs : \A i \in 1 .. Len(messages'[c]) : ~AnswerAt(c, i, r)'
        BY <2>3
      <3> QED BY <1>4, <2>3, <3>1 DEF Showing, Begun
    <2> QED BY <2>1, <2>2, <2>3
  <1>6. CASE ShownAs(s)' = ShownAs(s)
    <2>1. \A r \in Sends : ShownAs(r)' = ShownAs(r)
      BY <1>5, <1>6
    <2>2. ShownAnswers' = ShownAnswers
      BY <2>1, Zenon DEF ShownAnswers
    <2> QED BY <1>3, <2>2
  <1>7. CASE ShownAs(s)' # ShownAs(s)
    <2>1. /\ ShownAs(s) = "pending" /\ ShownAs(s)' \in {"stopped", "done", "failed"}
          /\ \A r \in Sends \ {s} : ShownAs(r)' = ShownAs(r)
      BY <1>5, <1>7
    <2>2. ShownAnswers' = [ShownAnswers EXCEPT ![s] = ShownAs(s)']
      BY <2>1 DEF ShownAnswers
    <2>3. Lifecycle!Decide(s)
      BY <2>1, <2>2 DEF Lifecycle!Decide, Lifecycle!Decisions, ShownAnswers
    <2> QED BY <1>3, <2>3 DEF Lifecycle!Next
  <1> QED BY <1>6, <1>7

\* A question is asked and its answer is put in one place; others may go.
LEMMA AskedStep ==
  ASSUME AInv, IInv', NEW s \in Sends, ~Begun(s), Begun(s)',
         \A r \in Sends \ {s} : send'[r] = send[r],
         NEW d \in Convs, NEW p \in 1 .. Len(messages'[d]), AnswerAt(d, p, s)',
         messages'[d][p].state = "pending",
         \A r \in Sends, c \in Convs : \A i \in 1 .. Len(messages'[c]) :
            AnswerAt(c, i, r)' =>
               \/ r = s /\ c = d /\ i = p
               \/ AnswerAt(c, i, r) /\ messages'[c][i].state = messages[c][i].state
  PROVE  AInv' /\ Lifecycle!Ask(s)
  <1>1. \A c \in Convs : \A i \in 1 .. Len(messages[c]) : ~AnswerAt(c, i, s)
    BY DEF AInv, AnswersBegun, Begun
  <1>2. \A c \in Convs : \A i : AnswerAt(c, i, s) => i \in 1 .. Len(messages[c])
    BY DEF AnswerAt
  <1>3. ASSUME NEW c \in Convs, NEW i \in 1 .. Len(messages'[c]), AnswerAt(c, i, s)'
        PROVE  c = d /\ i = p
    BY <1>1, <1>2, <1>3
  <1>4. ASSUME NEW r \in Sends \ {s}, NEW c \in Convs, NEW i \in 1 .. Len(messages'[c]),
               AnswerAt(c, i, r)'
        PROVE  /\ i \in 1 .. Len(messages[c]) /\ AnswerAt(c, i, r)
               /\ messages'[c][i].state = messages[c][i].state
    BY <1>4 DEF AnswerAt
  <1>5. AnsweredOnce'
    <2> SUFFICES ASSUME NEW r \in Sends, NEW c \in Convs, NEW e \in Convs,
                        NEW i \in 1 .. Len(messages'[c]), NEW j \in 1 .. Len(messages'[e]),
                        AnswerAt(c, i, r)', AnswerAt(e, j, r)'
                 PROVE  c = e /\ i = j
      BY DEF AnsweredOnce
    <2>1. CASE r = s
      BY <1>3, <2>1
    <2>2. CASE r # s
      BY <1>4, <2>2 DEF AInv, AnsweredOnce
    <2> QED BY <2>1, <2>2
  <1>6. AnswersBegun'
    <2> SUFFICES ASSUME NEW r \in Sends, NEW c \in Convs, NEW i \in 1 .. Len(messages'[c]),
                        AnswerAt(c, i, r)'
                 PROVE  /\ send'[r].phase # "idle"
                        /\ messages'[c][i].state \in {"pending", "stopped", "done", "failed"}
                        /\ r \in Live' => messages'[c][i].state = "pending"
      BY DEF AnswersBegun
    <2>1. CASE r = s
      BY <1>3, <2>1 DEF Begun
    <2>2. CASE r # s
      <3>1. r \in Live' => r \in Live
        BY <2>2 DEF Live, Streaming
      <3> QED BY <1>4, <2>2, <3>1 DEF AInv, AnswersBegun
    <2> QED BY <2>1, <2>2
  <1>7. AInv'
    BY <1>5, <1>6 DEF AInv
  <1>8. Showing /\ Showing'
    BY <1>7, MappingShows, MappingShowsNext
  <1> DEFINE Q == {r \in Sends \ {s} : ShownAs(r)' # ShownAs(r)}
  <1>9. ASSUME NEW r \in Q
        PROVE  ShownAs(r) \in {"pending", "stopped", "done", "failed"} /\ ShownAs(r)' = "gone"
    <2>1. Begun(r) /\ Begun(r)'
      BY <1>8 DEF Showing, Begun
    <2>2. ASSUME NEW c \in Convs, NEW i \in 1 .. Len(messages'[c]), AnswerAt(c, i, r)'
          PROVE  FALSE
      BY <1>4, <1>8, <2>2 DEF Showing
    <2>3. ShownAs(r)' = "gone"
      BY <1>8, <2>1, <2>2 DEF Showing, Begun
    <2>4. \E c \in Convs : \E i \in 1 .. Len(messages[c]) : AnswerAt(c, i, r)
      BY <1>8, <2>1, <2>3 DEF Showing, Begun
    <2> QED BY <1>8, <2>3, <2>4 DEF Showing, AInv, AnswersBegun
  <1>10. Q \subseteq Lifecycle!OnThePage
    BY <1>9 DEF Lifecycle!OnThePage, Lifecycle!Decisions, ShownAnswers
  <1>11. ShownAs(s) = "none" /\ ShownAs(s)' = "pending"
    BY <1>8 DEF Showing, Begun
  <1>12. ShownAnswers' = [Lifecycle!Without(Q) EXCEPT ![s] = "pending"]
    <2>1. \A r \in Sends \ {s} : ShownAs(r)' = IF r \in Q THEN "gone" ELSE ShownAs(r)
      BY <1>9
    <2> QED BY <1>11, <2>1 DEF Lifecycle!Without, ShownAnswers
  <1>13. Lifecycle!Ask(s)
    BY <1>10, <1>11, <1>12 DEF Lifecycle!Ask, ShownAnswers
  <1> QED BY <1>7, <1>13

\* A question is asked in a conversation that is not there.
LEMMA UnseenStep ==
  ASSUME AInv, IInv', NEW s \in Sends, ~Begun(s), Begun(s)',
         \A r \in Sends \ {s} : send'[r] = send[r], messages' = messages
  PROVE  AInv' /\ Lifecycle!AskUnseen(s)
  <1>1. \A c \in Convs : \A i \in 1 .. Len(messages[c]) : ~AnswerAt(c, i, s)
    BY DEF AInv, AnswersBegun, Begun
  <1>2. \A r, c, i : AnswerAt(c, i, r)' <=> AnswerAt(c, i, r)
    BY DEF AnswerAt
  <1>3. AnsweredOnce'
    BY <1>2 DEF AInv, AnsweredOnce
  <1>4. AnswersBegun'
    <2>1. \A r \in Sends \ {s} : r \in Live' => r \in Live
      BY DEF Live, Streaming
    <2> SUFFICES ASSUME NEW r \in Sends, NEW c \in Convs, NEW i \in 1 .. Len(messages[c]),
                        AnswerAt(c, i, r)
                 PROVE  /\ send'[r].phase # "idle"
                        /\ messages[c][i].state \in {"pending", "stopped", "done", "failed"}
                        /\ r \in Live' => messages[c][i].state = "pending"
      BY <1>2 DEF AnswersBegun
    <2>2. r # s
      BY <1>1
    <2>3. /\ send[r].phase # "idle"
          /\ messages[c][i].state \in {"pending", "stopped", "done", "failed"}
          /\ r \in Live => messages[c][i].state = "pending"
      BY DEF AInv, AnswersBegun
    <2>4. send'[r] = send[r] /\ (r \in Live' => r \in Live)
      BY <2>1, <2>2
    <2> QED BY <2>3, <2>4
  <1>5. AInv'
    BY <1>3, <1>4 DEF AInv
  <1>6. Showing /\ Showing'
    BY <1>5, MappingShows, MappingShowsNext
  <1>7. ShownAs(s) = "none" /\ ShownAs(s)' = "gone"
    BY <1>1, <1>2, <1>6 DEF Showing, Begun
  <1>8. ASSUME NEW r \in Sends \ {s}
        PROVE  ShownAs(r)' = ShownAs(r)
    <2>1. Begun(r)' = Begun(r)
      BY DEF Begun
    <2>2. CASE ~Begun(r)
      BY <1>6, <2>1, <2>2 DEF Showing, Begun
    <2>3. CASE Begun(r) /\ \A c \in Convs : \A i \in 1 .. Len(messages[c]) : ~AnswerAt(c, i, r)
      BY <1>2, <1>6, <2>1, <2>3 DEF Showing, Begun
    <2>4. CASE \E c \in Convs : \E i \in 1 .. Len(messages[c]) : AnswerAt(c, i, r)
      BY <1>2, <1>6, <2>4 DEF Showing
    <2> QED BY <2>2, <2>3, <2>4
  <1>9. ShownAnswers' = [ShownAnswers EXCEPT ![s] = "gone"]
    BY <1>7, <1>8 DEF ShownAnswers
  <1> QED BY <1>5, <1>7, <1>9 DEF Lifecycle!AskUnseen, ShownAnswers

-----------------------------------------------------------------------------
(* Every step is of one of these kinds.                                    *)

LEMMA SameSend ==
  ASSUME send' = send
  PROVE  Live' \subseteq Live /\ \A s \in Sends : Begun(s)' = Begun(s)
  BY DEF Live, Streaming, Begun

\* Whole conversations go, or nothing does.
LEMMA RemovedRefines ==
  ASSUME AInv, IInv', send' = send,
         \A c \in Convs : messages'[c] = messages[c] \/ messages'[c] = <<>>
  PROVE  AInv' /\ [Lifecycle!Next]_ShownAnswers
  <1>1. ASSUME NEW s \in Sends, NEW c \in Convs, NEW i \in 1 .. Len(messages'[c]), AnswerAt(c, i, s)'
        PROVE  AnswerAt(c, i, s) /\ messages'[c][i].state = messages[c][i].state
    <2>1. messages'[c] = messages[c]
      OBVIOUS
    <2> QED BY <1>1, <2>1 DEF AnswerAt
  <1> QED BY <1>1, SameSend, CarriedStep

\* The messages of the server answer none of the questions.
LEMMA GetAnsweredRefines ==
  ASSUME AInv, IInv', NEW d \in Convs, GetAnswered(d)
  PROVE  AInv' /\ [Lifecycle!Next]_ShownAnswers
  <1>1. send' = send
    BY DEF GetAnswered
  <1>2. \A c \in Convs : messages'[c] = messages[c] \/ messages'[c] = server[c]
    BY DEF GetAnswered, AInv, IInv, Types, TypeOK
  <1>3. ASSUME NEW s \in Sends, NEW c \in Convs, NEW i \in 1 .. Len(messages'[c]), AnswerAt(c, i, s)'
        PROVE  AnswerAt(c, i, s) /\ messages'[c][i].state = messages[c][i].state
    <2>1. CASE messages'[c] = messages[c]
      BY <1>3, <2>1 DEF AnswerAt
    <2>2. CASE messages'[c] = server[c]
      <3>1. server[c][i].role = "assistant" /\ server[c][i].about = s
        BY <1>3, <2>2 DEF AnswerAt, IsAnswer
      <3>2. s = 0
        BY <2>2, <3>1 DEF AInv, IInv, ServerKept
      <3> QED BY <3>2, Bounds
    <2> QED BY <1>2, <2>1, <2>2
  <1> QED BY <1>1, <1>3, SameSend, CarriedStep

LEMMA EditRefines ==
  ASSUME AInv, IInv', Edit
  PROVE  AInv' /\ [Lifecycle!Next]_ShownAnswers
  <1> DEFINE ms == messages[currentId]
  <1>1. /\ currentId \in Convs /\ send' = send
        /\ ms \in Seq(Message) /\ Len(ms) \in Nat /\ DOMAIN ms = 1 .. Len(ms)
        /\ \A i \in 1 .. Len(ms) : ms[i] \in Message
    BY MessagesTyped DEF Edit, AInv, IInv, Types, TypeOK
  <1>2. PICK i \in 1 .. Len(ms) :
           /\ ms[i].role = "user"
           /\ messages' = [messages EXCEPT ![currentId] = IF i = 1 THEN [ms EXCEPT ![1].about = 0]
                                                              ELSE SubSeq(ms, 1, i - 1)]
    BY DEF Edit
  <1>3. messages'[currentId] = IF i = 1 THEN [ms EXCEPT ![1].about = 0] ELSE SubSeq(ms, 1, i - 1)
    BY <1>1, <1>2 DEF AInv, IInv, Types, TypeOK
  <1>4. \A c \in Convs \ {currentId} : messages'[c] = messages[c]
    BY <1>2 DEF AInv, IInv, Types, TypeOK
  <1>5. ASSUME NEW s \in Sends, NEW c \in Convs, NEW j \in 1 .. Len(messages'[c]), AnswerAt(c, j, s)'
        PROVE  AnswerAt(c, j, s) /\ messages'[c][j].state = messages[c][j].state
    <2>1. CASE c # currentId
      <3>1. messages'[c] = messages[c]
        BY <1>4, <2>1
      <3> QED BY <1>5, <3>1 DEF AnswerAt
    <2>2. ASSUME c = currentId, j \in 1 .. Len(ms), messages'[c][j] = ms[j]
          PROVE  AnswerAt(c, j, s) /\ messages'[c][j].state = messages[c][j].state
      BY <1>5, <2>2 DEF AnswerAt
    <2> HIDE DEF ms
    <2>3. CASE c = currentId /\ i # 1
      <3>1. /\ Len(SubSeq(ms, 1, i - 1)) = i - 1
            /\ \A k \in 1 .. i - 1 : SubSeq(ms, 1, i - 1)[k] = ms[k]
        BY <1>1, PrefixType
      <3>2. j \in 1 .. Len(ms) /\ messages'[c][j] = ms[j]
        BY <1>1, <1>3, <2>3, <3>1
      <3> QED BY <2>2, <2>3, <3>2
    <2>4. CASE c = currentId /\ i = 1
      <3>1. messages'[c] = [ms EXCEPT ![1] = [ms[1] EXCEPT !.about = 0]]
        BY <1>3, <2>4
      <3>2. DOMAIN messages'[c] = 1 .. Len(ms) /\ Len(messages'[c]) = Len(ms)
        BY <1>1, <3>1
      <3>3. messages'[c][1].role = "user"
        <4>1. ms[1].role = "user" /\ ms[1] \in Message /\ 1 \in 1 .. Len(ms)
          BY <1>1, <1>2, <2>4
        <4>2. [ms[1] EXCEPT !.about = 0].role = "user"
          BY <4>1 DEF Message
        <4> QED BY <1>1, <3>1, <4>1, <4>2
      <3>4. j # 1
        BY <1>5, <3>3 DEF AnswerAt, IsAnswer
      <3>5. j \in 1 .. Len(ms) /\ messages'[c][j] = ms[j]
        BY <1>1, <3>1, <3>2, <3>4
      <3> QED BY <2>2, <2>4, <3>5
    <2> QED BY <2>1, <2>3, <2>4
  <1> QED BY <1>1, <1>5, SameSend, CarriedStep

\* A map over the messages of one conversation that keeps who wrote them and
\* what they are about.
LEMMA MappedRefines ==
  ASSUME AInv, IInv', NEW s \in Sends,
         \A r \in Sends : Begun(r)' = Begun(r), Live' \subseteq Live \ {s},
         \A c \in Convs : DOMAIN messages'[c] = DOMAIN messages[c],
         \A c \in Convs : \A i \in 1 .. Len(messages[c]) :
            /\ messages'[c][i].role = messages[c][i].role
            /\ messages'[c][i].about = messages[c][i].about
            /\ \/ messages'[c][i].state = messages[c][i].state
               \/ /\ IsAnswer(messages[c][i], s) /\ messages[c][i].state = "pending"
                  /\ messages'[c][i].state \in {"stopped", "done", "failed"}
  PROVE  AInv' /\ [Lifecycle!Next]_ShownAnswers
  <1>1. ASSUME NEW c \in Convs
        PROVE  Len(messages'[c]) = Len(messages[c])
    <2>1. messages[c] \in Seq(Message) /\ messages'[c] \in Seq(Message)
      BY DEF AInv, IInv, Types, TypeOK
    <2> QED BY <2>1, LenProperties
  <1>2. \A r \in Sends, c \in Convs : \A i \in 1 .. Len(messages[c]) :
            AnswerAt(c, i, r)' <=> AnswerAt(c, i, r)
    BY <1>1 DEF AnswerAt, IsAnswer
  <1>3. ASSUME NEW r \in Sends, NEW c \in Convs, NEW i \in 1 .. Len(messages[c]), AnswerAt(c, i, r)
        PROVE  \/ messages'[c][i].state = messages[c][i].state
               \/ /\ r = s /\ messages[c][i].state = "pending"
                  /\ messages'[c][i].state \in {"stopped", "done", "failed"}
    BY <1>3 DEF AnswerAt, IsAnswer
  <1> QED BY <1>1, <1>2, <1>3, DecidedStep

LEMMA DeltaRefines ==
  ASSUME AInv, IInv', NEW s \in Sends, Delta(s)
  PROVE  AInv' /\ [Lifecycle!Next]_ShownAnswers
  <1>1. send' = send /\ send[s].target.conv \in Convs
    BY DEF Delta, Finds, AInv, IInv, Types, TypeOK
  <1>2. \A c \in Convs : messages'[c] = messages[c] \/ messages'[c] = Grow(messages[c], s)
    BY <1>1 DEF Delta, AInv, IInv, Types, TypeOK
  <1>3. ASSUME NEW r \in Sends, NEW c \in Convs, NEW i \in 1 .. Len(messages'[c]), AnswerAt(c, i, r)'
        PROVE  AnswerAt(c, i, r) /\ messages'[c][i].state = messages[c][i].state
    <2>1. CASE messages'[c] = messages[c]
      BY <1>3, <2>1 DEF AnswerAt
    <2>2. CASE messages'[c] = Grow(messages[c], s)
      <3>1. messages'[c] = [k \in 1 .. Len(messages[c]) |->
                              IF IsAnswer(messages[c][k], s) THEN [messages[c][k] EXCEPT !.text = 1]
                                                             ELSE messages[c][k]]
        BY <2>2, MessagesTyped DEF Grow, AInv, IInv
      <3>2. Len(messages'[c]) = Len(messages[c]) /\ messages[c][i] \in Message
        BY <3>1, MessagesTyped DEF AInv, IInv
      <3>3. /\ messages'[c][i].state = messages[c][i].state
            /\ messages'[c][i].role = messages[c][i].role
            /\ messages'[c][i].about = messages[c][i].about
        BY <3>1, <3>2 DEF Message
      <3> QED BY <1>3, <3>2, <3>3 DEF AnswerAt, IsAnswer
    <2> QED BY <1>2, <2>1, <2>2
  <1> QED BY <1>1, <1>3, SameSend, CarriedStep

LEMMA StopRefines ==
  ASSUME AInv, IInv', Stop
  PROVE  AInv' /\ [Lifecycle!Next]_ShownAnswers
  <1>1. /\ controller \in 0 .. MaxSends /\ send' = Cancelled(controller)
        /\ \A c \in Convs : \/ messages'[c] = messages[c]
                            \/ messages'[c] = MarkStopped(messages[c], controller)
    BY DEF Stop, AInv, IInv, Types, TypeOK
  <1>2. ASSUME NEW c \in Convs, messages'[c] = MarkStopped(messages[c], controller)
        PROVE  /\ DOMAIN messages'[c] = DOMAIN messages[c]
               /\ \A i \in 1 .. Len(messages[c]) :
                     /\ messages'[c][i].role = messages[c][i].role
                     /\ messages'[c][i].about = messages[c][i].about
                     /\ \/ messages'[c][i].state = messages[c][i].state
                        \/ /\ IsAnswer(messages[c][i], controller)
                           /\ messages[c][i].state = "pending"
                           /\ messages'[c][i].state = "stopped"
    <2>1. messages'[c] = [k \in 1 .. Len(messages[c]) |->
                            IF IsAnswer(messages[c][k], controller) /\ messages[c][k].state = "pending"
                            THEN [messages[c][k] EXCEPT !.state = "stopped"] ELSE messages[c][k]]
      BY <1>2, MessagesTyped DEF MarkStopped, AInv, IInv
    <2>2. \A i \in 1 .. Len(messages[c]) : messages[c][i] \in Message
      BY MessagesTyped DEF AInv, IInv
    <2>3. DOMAIN messages'[c] = DOMAIN messages[c]
      BY <2>1, MessagesTyped DEF AInv, IInv
    <2> QED BY <2>1, <2>2, <2>3 DEF Message
  <1>3. CASE controller = 0
    <2>1. send' = send
      BY <1>1, <1>3 DEF Cancelled
    <2>2. ASSUME NEW r \in Sends, NEW c \in Convs, NEW i \in 1 .. Len(messages'[c]),
                 AnswerAt(c, i, r)'
          PROVE  AnswerAt(c, i, r) /\ messages'[c][i].state = messages[c][i].state
      <3>1. CASE messages'[c] = messages[c]
        BY <2>2, <3>1 DEF AnswerAt
      <3>2. CASE messages'[c] = MarkStopped(messages[c], controller)
        <4>1. messages[c] \in Seq(Message) /\ messages'[c] \in Seq(Message)
          BY DEF AInv, IInv, Types, TypeOK
        <4>2. Len(messages'[c]) = Len(messages[c])
          BY <1>2, <3>2, <4>1, LenProperties
        <4>3. /\ messages'[c][i].role = messages[c][i].role
              /\ messages'[c][i].about = messages[c][i].about
              /\ messages'[c][i].state = messages[c][i].state \/ messages[c][i].about = 0
          BY <1>2, <1>3, <3>2, <4>2 DEF IsAnswer
        <4>4. messages[c][i].about = r /\ r # 0
          BY <2>2, <4>3, Bounds DEF AnswerAt, IsAnswer
        <4> QED BY <2>2, <4>2, <4>3, <4>4 DEF AnswerAt, IsAnswer
      <3> QED BY <1>1, <3>1, <3>2
    <2> QED BY <2>1, <2>2, SameSend, CarriedStep
  <1>4. CASE controller # 0
    <2>1. controller \in Sends /\ send' = [send EXCEPT ![controller].cancelled = TRUE]
      BY <1>1, <1>4, Bounds DEF Cancelled, Sends
    <2>2. /\ \A r \in Sends : Begun(r)' = Begun(r)
          /\ Live' \subseteq Live \ {controller}
      BY <2>1 DEF Begun, Live, Streaming, AInv, IInv, Types, TypeOK
    <2>3. \A c \in Convs : DOMAIN messages'[c] = DOMAIN messages[c]
      BY <1>1, <1>2
    <2>4. \A c \in Convs : \A i \in 1 .. Len(messages[c]) :
             /\ messages'[c][i].role = messages[c][i].role
             /\ messages'[c][i].about = messages[c][i].about
             /\ \/ messages'[c][i].state = messages[c][i].state
                \/ /\ IsAnswer(messages[c][i], controller) /\ messages[c][i].state = "pending"
                   /\ messages'[c][i].state \in {"stopped", "done", "failed"}
      BY <1>1, <1>2
    <2> QED BY <2>1, <2>2, <2>3, <2>4, MappedRefines
  <1> QED BY <1>3, <1>4

\* A stream that was not told to stop decides its answer, which was pending.
LEMMA EndRefines ==
  ASSUME AInv, IInv', NEW s \in Sends, End(s)
  PROVE  AInv' /\ [Lifecycle!Next]_ShownAnswers
  <1>1. send' = [send EXCEPT ![s] = [Unused EXCEPT !.phase = "ended"]] /\ s \in Streaming
    BY DEF End
  <1>2. (\A r \in Sends : Begun(r)' = Begun(r)) /\ Live' \subseteq Live \ {s}
    BY <1>1 DEF Begun, Live, Streaming, Unused, AInv, IInv, Types, TypeOK
  <1>3. CASE messages' = messages
    BY <1>2, <1>3, MappedRefines
  <1>4. CASE messages' # messages
    <2>1. PICK state \in {"done", "failed"}, d \in Convs :
             messages' = [messages EXCEPT ![d] = Replace(@, s, state, 1)]
      BY <1>4 DEF End, Finds, AInv, IInv, Types, TypeOK
    <2>2. s \in Live
      BY <1>1, <1>4 DEF End, Live
    <2>3. ASSUME NEW c \in Convs
          PROVE  messages'[c] = messages[c] \/ messages'[c] = Replace(messages[c], s, state, 1)
      BY <2>1 DEF AInv, IInv, Types, TypeOK
    <2>4. ASSUME NEW c \in Convs, messages'[c] = Replace(messages[c], s, state, 1)
          PROVE  /\ DOMAIN messages'[c] = DOMAIN messages[c]
                 /\ \A i \in 1 .. Len(messages[c]) :
                       /\ messages'[c][i].role = messages[c][i].role
                       /\ messages'[c][i].about = messages[c][i].about
                       /\ \/ messages'[c][i].state = messages[c][i].state
                          \/ IsAnswer(messages[c][i], s) /\ messages'[c][i].state = state
      <3>1. messages'[c] = [k \in 1 .. Len(messages[c]) |->
                              IF IsAnswer(messages[c][k], s)
                              THEN [messages[c][k] EXCEPT !.state = state, !.text = 1]
                              ELSE messages[c][k]]
        BY <2>4, MessagesTyped DEF Replace, AInv, IInv
      <3>2. \A i \in 1 .. Len(messages[c]) : messages[c][i] \in Message
        BY MessagesTyped DEF AInv, IInv
      <3>3. DOMAIN messages'[c] = DOMAIN messages[c]
        BY <3>1, MessagesTyped DEF AInv, IInv
      <3>4. \A m \in Message : /\ [m EXCEPT !.state = state, !.text = 1].role = m.role
                              /\ [m EXCEPT !.state = state, !.text = 1].about = m.about
                              /\ [m EXCEPT !.state = state, !.text = 1].state = state
        BY DEF Message
      <3>5. ASSUME NEW i \in 1 .. Len(messages[c])
            PROVE  /\ messages'[c][i].role = messages[c][i].role
                   /\ messages'[c][i].about = messages[c][i].about
                   /\ \/ messages'[c][i].state = messages[c][i].state
                      \/ IsAnswer(messages[c][i], s) /\ messages'[c][i].state = state
        <4>1. CASE IsAnswer(messages[c][i], s)
          <5>1. messages'[c][i] = [messages[c][i] EXCEPT !.state = state, !.text = 1]
            BY <3>1, <4>1
          <5>2. messages[c][i] \in Message
            BY <3>2
          <5>3. /\ messages'[c][i].role = messages[c][i].role
                /\ messages'[c][i].about = messages[c][i].about
                /\ messages'[c][i].state = state
            BY <3>4, <5>1, <5>2
          <5> QED BY <4>1, <5>3
        <4>2. CASE ~IsAnswer(messages[c][i], s)
          BY <3>1, <4>2
        <4> QED BY <4>1, <4>2
      <3> QED BY <3>3, <3>5
    <2>5. \A c \in Convs : \A i \in 1 .. Len(messages[c]) :
             IsAnswer(messages[c][i], s) => messages[c][i].state = "pending"
      BY <2>2 DEF AInv, AnswersBegun, AnswerAt
    <2>6. \A c \in Convs : DOMAIN messages'[c] = DOMAIN messages[c]
      BY <2>3, <2>4
    <2>7. \A c \in Convs : \A i \in 1 .. Len(messages[c]) :
             /\ messages'[c][i].role = messages[c][i].role
             /\ messages'[c][i].about = messages[c][i].about
             /\ \/ messages'[c][i].state = messages[c][i].state
                \/ /\ IsAnswer(messages[c][i], s) /\ messages[c][i].state = "pending"
                   /\ messages'[c][i].state \in {"stopped", "done", "failed"}
      BY <2>3, <2>4, <2>5
    <2> QED BY <1>2, <2>6, <2>7, MappedRefines
  <1> QED BY <1>3, <1>4

LEMMA BeginBegins ==
  ASSUME Types, NEW s \in Sends, IsNext(s), NEW target, NEW typed, Begin(s, target, typed)
  PROVE  ~Begun(s) /\ Begun(s)' /\ \A r \in Sends \ {s} : send'[r] = send[r]
  BY DEF Begin, IsNext, Begun, Types, TypeOK

\* The question and its answer are put at the end of a conversation.
LEMMA AppendRefines ==
  ASSUME AInv, IInv', NEW s \in Sends, IsNext(s), NEW target, NEW typed, Begin(s, target, typed),
         NEW d \in Convs, messages' = [messages EXCEPT ![d] = @ \o <<Question(s), Answer(s)>>]
  PROVE  AInv' /\ [Lifecycle!Next]_ShownAnswers
  <1> DEFINE ms == messages[d]
  <1>1. ms \in Seq(Message) /\ Len(ms) \in Nat
    BY MessagesTyped DEF AInv, IInv
  <1>2. /\ messages'[d] = ms \o <<Question(s), Answer(s)>>
        /\ \A c \in Convs \ {d} : messages'[c] = messages[c]
    BY DEF AInv, IInv, Types, TypeOK
  <1> HIDE DEF ms
  <1>3. /\ Len(messages'[d]) = Len(ms) + 2
        /\ \A i \in 1 .. Len(ms) + 2 : messages'[d][i] =
              IF i <= Len(ms) THEN ms[i] ELSE IF i = Len(ms) + 1 THEN Question(s) ELSE Answer(s)
    BY <1>1, <1>2, AskedTypes
  <1>4. PICK p \in 1 .. Len(messages'[d]) : p = Len(ms) + 2 /\ messages'[d][p] = Answer(s)
    BY <1>1, <1>3
  <1>5. AnswerAt(d, p, s)' /\ messages'[d][p].state = "pending"
    BY <1>4 DEF AnswerAt, IsAnswer, Answer
  <1>6. ASSUME NEW r \in Sends, NEW c \in Convs, NEW i \in 1 .. Len(messages'[c]), AnswerAt(c, i, r)'
        PROVE  \/ r = s /\ c = d /\ i = p
               \/ AnswerAt(c, i, r) /\ messages'[c][i].state = messages[c][i].state
    <2>1. CASE c # d
      BY <1>2, <1>6, <2>1 DEF AnswerAt
    <2>2. CASE c = d /\ i <= Len(ms)
      <3>1. i \in 1 .. Len(ms) /\ messages'[c][i] = ms[i]
        BY <1>1, <1>3, <2>2
      <3> QED BY <1>6, <2>2, <3>1 DEF AnswerAt, ms
    <2>3. CASE c = d /\ i = Len(ms) + 1
      <3>1. messages'[c][i] = Question(s)
        BY <1>1, <1>3, <2>3
      <3> QED BY <1>6, <3>1 DEF AnswerAt, IsAnswer, Question
    <2>4. CASE c = d /\ i = p
      BY <1>4, <1>6, <2>4 DEF AnswerAt, IsAnswer, Answer
    <2>5. c # d \/ i <= Len(ms) \/ i = Len(ms) + 1 \/ i = p
      BY <1>1, <1>3, <1>4
    <2> QED BY <2>1, <2>2, <2>3, <2>4, <2>5
  <1>7. ~Begun(s) /\ Begun(s)' /\ \A r \in Sends \ {s} : send'[r] = send[r]
    BY BeginBegins DEF AInv, IInv
  <1>8. \A r \in Sends, c \in Convs : \A i \in 1 .. Len(messages'[c]) :
           AnswerAt(c, i, r)' =>
              \/ r = s /\ c = d /\ i = p
              \/ AnswerAt(c, i, r) /\ messages'[c][i].state = messages[c][i].state
    BY <1>6
  <1>9. messages'[d][p].state = "pending" /\ AnswerAt(d, p, s)'
    BY <1>5
  <1>10. AInv' /\ Lifecycle!Ask(s)
    BY <1>7, <1>8, <1>9, AskedStep
  <1> QED BY <1>10 DEF Lifecycle!Next

LEMMA AskRefines ==
  ASSUME AInv, IInv', NEW s \in Sends, Ask(s)
  PROVE  AInv' /\ [Lifecycle!Next]_ShownAnswers
  <1> DEFINE target == IF currentId = 0 THEN [conv |-> made + 1, saved |-> FALSE]
                                        ELSE IdOf(currentId)
  <1>1. Begin(s, target, TRUE) /\ IsNext(s)
    BY DEF Ask
  <1>2. \/ messages' = messages
        \/ \E d \in Convs : messages' = [messages EXCEPT ![d] = @ \o <<Question(s), Answer(s)>>]
    BY AskMakes DEF Ask, AInv, IInv
  <1> HIDE DEF target
  <1>3. CASE messages' = messages
    <2>1. ~Begun(s) /\ Begun(s)' /\ \A r \in Sends \ {s} : send'[r] = send[r]
      BY <1>1, BeginBegins DEF AInv, IInv
    <2>2. AInv' /\ Lifecycle!AskUnseen(s)
      BY <1>3, <2>1, UnseenStep
    <2> QED BY <2>2 DEF Lifecycle!Next
  <1> QED BY <1>1, <1>2, <1>3, AppendRefines

LEMMA EditAndAskRefines ==
  ASSUME AInv, IInv', NEW s \in Sends, EditAndAsk(s)
  PROVE  AInv' /\ [Lifecycle!Next]_ShownAnswers
  <1>1. /\ Begin(s, IdOf(currentId), TRUE) /\ IsNext(s) /\ currentId \in Convs
        /\ messages' = [messages EXCEPT ![currentId] = @ \o <<Question(s), Answer(s)>>]
    BY DEF EditAndAsk, AInv, IInv, Types, TypeOK
  <1> QED BY <1>1, AppendRefines

\* The new answer takes the place of the one generated again and of what follows.
LEMMA RegenerateRefines ==
  ASSUME AInv, IInv', NEW s \in Sends, Regenerate(s)
  PROVE  AInv' /\ [Lifecycle!Next]_ShownAnswers
  <1>0. PICK d \in Convs : d = currentId
    BY DEF Regenerate, AInv, IInv, Types, TypeOK
  <1> DEFINE ms == messages[d]
  <1>1. d \in Convs /\ ms \in Seq(Message) /\ Len(ms) \in Nat
    BY MessagesTyped DEF AInv, IInv
  <1>2. PICK k \in 2 .. Len(ms) :
           /\ ms[k - 1].role = "user"
           /\ messages' = [messages EXCEPT ![d] = SubSeq(ms, 1, k - 1) \o <<ms[k - 1], Answer(s)>>]
    BY <1>0 DEF Regenerate
  <1>3. /\ messages'[d] = SubSeq(ms, 1, k - 1) \o <<ms[k - 1], Answer(s)>>
        /\ \A c \in Convs \ {d} : messages'[c] = messages[c]
    BY <1>1, <1>2 DEF AInv, IInv, Types, TypeOK
  <1>4. Begin(s, IdOf(d), FALSE) /\ IsNext(s)
    BY <1>0 DEF Regenerate
  <1> HIDE DEF ms
  <1>5. /\ Len(messages'[d]) = k + 1
        /\ \A j \in 1 .. k + 1 : messages'[d][j] =
              IF j < k THEN ms[j] ELSE IF j = k THEN ms[k - 1] ELSE Answer(s)
    <2> DEFINE new == SubSeq(ms, 1, k - 1) \o <<ms[k - 1], Answer(s)>>
    <2>1. /\ Len(new) = k + 1
          /\ \A j \in 1 .. k + 1 : new[j] =
                IF j < k THEN ms[j] ELSE IF j = k THEN ms[k - 1] ELSE Answer(s)
      BY <1>1, RegeneratedType
    <2> QED BY <1>3, <2>1
  <1>6. k + 1 \in 1 .. Len(messages'[d]) /\ messages'[d][k + 1] = Answer(s)
    BY <1>1, <1>5
  <1>7. AnswerAt(d, k + 1, s)' /\ messages'[d][k + 1].state = "pending"
    BY <1>1, <1>6 DEF AnswerAt, IsAnswer, Answer
  <1>8. ASSUME NEW r \in Sends, NEW c \in Convs, NEW i \in 1 .. Len(messages'[c]), AnswerAt(c, i, r)'
        PROVE  \/ r = s /\ c = d /\ i = k + 1
               \/ AnswerAt(c, i, r) /\ messages'[c][i].state = messages[c][i].state
    <2>1. CASE c # d
      BY <1>3, <1>8, <2>1 DEF AnswerAt
    <2>2. CASE c = d /\ i < k
      <3>1. i \in 1 .. Len(ms) /\ messages'[c][i] = ms[i]
        BY <1>1, <1>5, <2>2
      <3> QED BY <1>8, <2>2, <3>1 DEF AnswerAt, ms
    <2>3. CASE c = d /\ i = k
      <3>1. messages'[c][i].role = "user"
        BY <1>1, <1>2, <1>5, <2>3
      <3> QED BY <1>8, <3>1 DEF AnswerAt, IsAnswer
    <2>4. CASE c = d /\ i = k + 1
      BY <1>6, <1>8, <2>4 DEF AnswerAt, IsAnswer, Answer
    <2>5. c # d \/ i < k \/ i = k \/ i = k + 1
      BY <1>1, <1>5
    <2> QED BY <2>1, <2>2, <2>3, <2>4, <2>5
  <1>9. ~Begun(s) /\ Begun(s)' /\ \A r \in Sends \ {s} : send'[r] = send[r]
    BY <1>4, BeginBegins DEF AInv, IInv
  <1>10. AInv' /\ Lifecycle!Ask(s)
    BY <1>1, <1>6, <1>7, <1>8, <1>9, AskedStep
  <1> QED BY <1>10 DEF Lifecycle!Next

-----------------------------------------------------------------------------
(* The refinement.                                                         *)

LEMMA InitAnswers == Init => AInv /\ Lifecycle!Init
  <1> SUFFICES ASSUME Init PROVE AInv /\ Lifecycle!Init
    OBVIOUS
  <1>1. \A c \in Convs : messages[c] = <<>> /\ 1 .. Len(<<>>) = {}
    BY DEF Init
  <1>2. AnsweredOnce /\ AnswersBegun
    BY <1>1 DEF AnsweredOnce, AnswersBegun
  <1>3. AInv
    BY <1>2, InitInv DEF AInv
  <1>4. \A s \in Sends : ShownAs(s) = "none"
    BY <1>3, MappingShows DEF Showing, Init, Unused
  <1> QED BY <1>3, <1>4, Zenon DEF Lifecycle!Init, ShownAnswers

LEMMA NextAnswers == AInv /\ [Next]_vars => AInv' /\ [Lifecycle!Next]_ShownAnswers
  <1> SUFFICES ASSUME AInv, [Next]_vars
               PROVE  AInv' /\ [Lifecycle!Next]_ShownAnswers
    OBVIOUS
  <1> USE DEF ui
  <1>1. IInv' /\ messages \in [Convs -> Seq(Message)]
    BY NextInv DEF AInv, IInv, Types, TypeOK
  <1>2. ASSUME send' = send, NEW cs, messages' = Only(cs)
        PROVE  AInv' /\ [Lifecycle!Next]_ShownAnswers
    <2>1. \A c \in Convs : messages'[c] = messages[c] \/ messages'[c] = <<>>
      BY <1>2 DEF Only
    <2> QED BY <1>1, <1>2, <2>1, RemovedRefines
  <1>3. ASSUME send' = send, messages' = messages
        PROVE  AInv' /\ [Lifecycle!Next]_ShownAnswers
    BY <1>1, <1>3, RemovedRefines
  <1>4. CASE User
    <2>1. CASE \E s \in Sends : Ask(s) \/ Regenerate(s) \/ EditAndAsk(s)
      BY <1>1, <2>1, AskRefines, RegenerateRefines, EditAndAskRefines
    <2>2. CASE Edit \/ Stop
      BY <1>1, <2>2, EditRefines, StopRefines
    <2>3. CASE ConfirmDelete
      BY <1>2, <2>3 DEF ConfirmDelete
    <2>4. CASE \/ NewConversation \/ SubmitEmpty \/ CancelDelete \/ Rename \/ Refresh
               \/ \E d \in Convs : SelectConversation(d) \/ DeleteConversation(d)
      BY <1>3, <2>4 DEF NewConversation, SubmitEmpty, CancelDelete, Rename, Refresh,
                        SelectConversation, DeleteConversation
    <2> QED BY <1>4, <2>1, <2>2, <2>3, <2>4 DEF User
  <1>5. CASE Answers
    <2>1. CASE ListAnswered
      BY <1>2, <2>1 DEF ListAnswered
    <2>2. CASE \E d \in Convs : GetAnswered(d)
      BY <1>1, <2>2, GetAnsweredRefines
    <2>3. CASE \/ RefusedAnswered \/ \E id \in Ids : DeleteAnswered(id)
               \/ \E d \in Convs : CreateAnswered(d)
               \/ \E d \in Convs, q \in 0 .. MaxSends : PostAnswered(d, q)
      BY <1>3, <2>3 DEF RefusedAnswered, DeleteAnswered, CreateAnswered, PostAnswered
    <2> QED BY <1>5, <2>1, <2>2, <2>3 DEF Answers
  <1>6. CASE \E s \in Sends : Delta(s) \/ End(s)
    BY <1>1, <1>6, DeltaRefines, EndRefines
  <1>7. CASE UNCHANGED vars
    BY <1>3, <1>7 DEF vars
  <1> QED BY <1>4, <1>5, <1>6, <1>7 DEF Next

\* The page implements the life cycle of an answer: shown as pending from the
\* moment it is asked for, decided at most once, and never back once removed.
THEOREM ImplementsAnswerLifecycle == Spec => AnswersDecidedOnce
  BY InitAnswers, NextAnswers, PTL DEF Spec, AnswersDecidedOnce, Lifecycle!Spec

\* The answer to a question is one message of one conversation at most.
THEOREM AnswerInOnePlace == Spec => []AnsweredOnce
  <1>1. AInv => AnsweredOnce
    BY DEF AInv
  <1> QED BY InitAnswers, NextAnswers, <1>1, PTL DEF Spec

\* An answer whose stream is live is not shown as decided.
LiveIsPending ==
    \A s \in Live, c \in Convs : \A i \in 1 .. Len(messages[c]) :
        AnswerAt(c, i, s) => messages[c][i].state = "pending"

\* No answer is shown as decided while its stream is live (page.tsx:678-742);
\* with PendingLive, what is shown as pending and what is streamed agree.
THEOREM LiveShownPending == Spec => []LiveIsPending
  <1>1. AInv => LiveIsPending
    BY DEF AInv, AnswersBegun, LiveIsPending, Live, Streaming
  <1> QED BY InitAnswers, NextAnswers, <1>1, PTL DEF Spec
=============================================================================
