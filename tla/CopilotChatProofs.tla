------------------------- MODULE CopilotChatProofs -------------------------
(***************************************************************************)
(* What holds of the copilot page for any number of questions,             *)
(* conversations and clicks.                                               *)
(***************************************************************************)
EXTENDS CopilotChat, TLAPS, SequenceTheorems

\* A conversation the server is asked to make is one the page has made.
Known(n) == {r \in Request : r.kind = "create" => r.conv <= n}

Numbered == requests \subseteq Known(made) /\ saved \subseteq 1 .. made

Types == TypeOK /\ Numbered /\ SelectedIsListed

-----------------------------------------------------------------------------
(* The requests the page makes.                                            *)

LEMMA Bounds ==
  /\ MaxSends \in Nat \ {0} /\ MaxConvs \in Nat \ {0} /\ MaxClicks \in Nat
  /\ Sends \subseteq Nat \ {0} /\ Convs \subseteq Nat \ {0}
  BY CopilotAssumption DEF Sends, Convs

LEMMA RefusedKnown == \A n \in Nat : Refused \in Known(n)
  BY DEF Refused, Known, Request

LEMMA KnownGrows == \A m, n \in Nat : m <= n => Known(m) \subseteq Known(n)
  <1>1. \A r \in Request : r.kind = "create" => r.conv \in Nat
    BY Bounds DEF Request
  <1> QED BY <1>1 DEF Known

LEMMA LoadIfEmptyKnown ==
  ASSUME NEW cs \in SUBSET Convs, NEW sv, NEW ms, NEW cur, NEW n \in Nat
  PROVE  LoadIfEmpty(cs, sv, ms, cur) \subseteq Known(n)
  <1>1. \A c \in Convs : [kind |-> "get", conv |-> c] \in Known(n)
    BY DEF Known, Request
  <1> QED BY <1>1, RefusedKnown DEF LoadIfEmpty

LEMMA CreatesKnown ==
  ASSUME Types, NEW n \in {1, 2}, made + n <= MaxConvs
  PROVE  Creates(n) \subseteq Known(made + n)
  <1>1. made \in Nat /\ made + 1 .. made + n \subseteq Convs
    BY Bounds DEF Types, TypeOK, Convs
  <1>2. \A c \in made + 1 .. made + n : [kind |-> "create", conv |-> c] \in Known(made + n)
    BY <1>1 DEF Known, Request
  <1> QED BY <1>2 DEF Creates

LEMMA PostKnown ==
  ASSUME NEW id \in Ids \cup {NoId}, NEW q \in 0 .. MaxSends, NEW n \in Nat
  PROVE  Post(id, q) \in Known(n) /\ Posts(id, q) \subseteq Known(n)
  <1>1. CASE id.saved
    <2>1. id.conv \in Convs
      BY <1>1 DEF Ids, NoId
    <2>2. [kind |-> "post", conv |-> id.conv, about |-> q] \in Known(n)
      BY <2>1 DEF Known, Request
    <2> QED BY <1>1, <2>2 DEF Post, Posts
  <1>2. CASE ~id.saved
    BY <1>2, RefusedKnown DEF Post, Posts
  <1> QED BY <1>1, <1>2

LEMMA IdOfType == \A c \in Convs : IdOf(c) \in Ids /\ IdOf(c) # NoId
  BY Bounds DEF IdOf, Ids, NoId

-----------------------------------------------------------------------------
(* Conversations made and selected.                                        *)

LEMMA EnsureConversationMakes ==
  ASSUME Types, NEW n \in {1, 2}, EnsureConversation(n)
  PROVE  /\ made' = made + n /\ made + n <= MaxConvs /\ made' \in 0 .. MaxConvs
         /\ made \in Nat /\ made' \in Nat
         /\ listed' \subseteq Convs /\ listed' \subseteq 1 .. made'
         /\ listed \subseteq listed'
         /\ currentId' \in 0 .. made' /\ currentId' \in listed'
         /\ made + 1 \in listed' /\ made + 1 \in Convs
         /\ saved \subseteq 1 .. made'
         /\ requests \subseteq Known(made')
  <1>1. made \in Nat /\ made' = made + n /\ made + n <= MaxConvs
    BY Bounds DEF Types, TypeOK, EnsureConversation
  <1>2. listed' = listed \cup (made + 1 .. made + n) /\ currentId' = made + n
    BY DEF EnsureConversation
  <1>3. requests \subseteq Known(made')
    BY <1>1, KnownGrows DEF Types, Numbered
  <1> QED BY <1>1, <1>2, <1>3, Bounds DEF Types, TypeOK, Numbered, Convs

LEMMA NewestListed == \A cs : Newest(cs) \subseteq cs
  BY DEF Newest

LEMMA ReselectListed ==
  ASSUME NEW cs, NEW c, NEW d \in Reselect(cs, c)
  PROVE  (cs # {} => d \in cs) /\ (d \in cs \/ d = c)
  BY NewestListed DEF Reselect

-----------------------------------------------------------------------------
(* The messages of a conversation.                                         *)

LEMMA MessageTypes ==
  ASSUME NEW s \in 0 .. MaxSends
  PROVE  Question(s) \in Message /\ Answer(s) \in Message
  BY DEF Message, Question, Answer, States

LEMMA AskedTypes ==
  ASSUME NEW ms \in Seq(Message), NEW s \in Sends
  PROVE  /\ ms \o <<Question(s), Answer(s)>> \in Seq(Message)
         /\ Len(ms \o <<Question(s), Answer(s)>>) = Len(ms) + 2
         /\ \A i \in 1 .. Len(ms) + 2 : (ms \o <<Question(s), Answer(s)>>)[i] =
               IF i <= Len(ms) THEN ms[i] ELSE IF i = Len(ms) + 1 THEN Question(s) ELSE Answer(s)
  <1> DEFINE two == <<Question(s), Answer(s)>>
  <1>1. Question(s) \in Message /\ Answer(s) \in Message
    BY MessageTypes, Bounds DEF Sends
  <1>2. two \in Seq(Message) /\ Len(two) = 2 /\ two[1] = Question(s) /\ two[2] = Answer(s)
    BY <1>1
  <1> HIDE DEF two
  <1>3. /\ ms \o two \in Seq(Message)
        /\ Len(ms \o two) = Len(ms) + Len(two)
        /\ \A i \in 1 .. Len(ms) + Len(two) : (ms \o two)[i] =
               IF i <= Len(ms) THEN ms[i] ELSE two[i - Len(ms)]
    BY <1>2, ConcatProperties
  <1>4. Len(ms) \in Nat
    BY LenProperties
  <1>5. ASSUME NEW i \in 1 .. Len(ms) + 2
        PROVE  (ms \o two)[i] =
               IF i <= Len(ms) THEN ms[i] ELSE IF i = Len(ms) + 1 THEN Question(s) ELSE Answer(s)
    <2>1. (ms \o two)[i] = IF i <= Len(ms) THEN ms[i] ELSE two[i - Len(ms)]
      BY <1>2, <1>3
    <2>2. CASE i <= Len(ms)
      BY <2>1, <2>2
    <2>3. CASE i = Len(ms) + 1
      <3>1. i - Len(ms) = 1 /\ ~(i <= Len(ms))
        BY <1>4, <2>3
      <3> QED BY <2>1, <2>3, <3>1, <1>2
    <2>4. CASE i = Len(ms) + 2
      <3>1. i - Len(ms) = 2 /\ ~(i <= Len(ms)) /\ i # Len(ms) + 1
        BY <1>4, <2>4
      <3> QED BY <2>1, <3>1, <1>2
    <2>5. i <= Len(ms) \/ i = Len(ms) + 1 \/ i = Len(ms) + 2
      BY <1>4
    <2> QED BY <2>2, <2>3, <2>4, <2>5
  <1> QED BY <1>2, <1>3, <1>5 DEF two

\* What a map over the messages gives: as many, and each a message.
LEMMA MapTypes ==
  ASSUME NEW ms \in Seq(Message), NEW s
  PROVE  /\ \A state \in States, text \in 0 .. 1 :
               Replace(ms, s, state, text) \in Seq(Message)
         /\ Grow(ms, s) \in Seq(Message)
         /\ MarkStopped(ms, s) \in Seq(Message)
  <1>1. DOMAIN ms = 1 .. Len(ms) /\ Len(ms) \in Nat /\ \A i \in 1 .. Len(ms) : ms[i] \in Message
    BY LenProperties
  <1>2. \A n \in Nat : [1 .. n -> Message] \subseteq Seq(Message)
    BY SeqDef
  <1>3. \A f : f \in [1 .. Len(ms) -> Message] => f \in Seq(Message)
    BY <1>1, <1>2
  <1>4. ASSUME NEW state \in States, NEW text \in 0 .. 1
        PROVE  Replace(ms, s, state, text) \in [1 .. Len(ms) -> Message]
    BY <1>1 DEF Replace, Message
  <1>5. Grow(ms, s) \in [1 .. Len(ms) -> Message]
    BY <1>1 DEF Grow, Message
  <1>6. MarkStopped(ms, s) \in [1 .. Len(ms) -> Message]
    BY <1>1 DEF MarkStopped, Message, States
  <1> QED BY <1>3, <1>4, <1>5, <1>6

LEMMA PrefixType ==
  ASSUME NEW ms \in Seq(Message), NEW i \in 1 .. Len(ms)
  PROVE  /\ SubSeq(ms, 1, i - 1) \in Seq(Message)
         /\ Len(SubSeq(ms, 1, i - 1)) = i - 1
         /\ \A j \in 1 .. i - 1 : SubSeq(ms, 1, i - 1)[j] = ms[j]
  <1>1. Len(ms) \in Nat /\ \A j \in 1 .. Len(ms) : ms[j] \in Message
    BY LenProperties
  <1>2. i - 1 \in Int /\ 1 \in Int /\ \A j \in 1 .. i - 1 : ms[j] \in Message
    BY <1>1
  <1>3. /\ SubSeq(ms, 1, i - 1) \in Seq(Message)
        /\ Len(SubSeq(ms, 1, i - 1)) = IF 1 <= i - 1 THEN (i - 1) - 1 + 1 ELSE 0
        /\ \A j \in 1 .. (i - 1) - 1 + 1 : SubSeq(ms, 1, i - 1)[j] = ms[1 + j - 1]
    BY <1>2, SubSeqProperties
  <1> QED BY <1>1, <1>3

LEMMA RegeneratedType ==
  ASSUME NEW ms \in Seq(Message), NEW i \in 2 .. Len(ms), NEW s \in Sends
  PROVE  LET new == SubSeq(ms, 1, i - 1) \o <<ms[i - 1], Answer(s)>>
         IN  /\ new \in Seq(Message)
             /\ Len(new) = i + 1
             /\ \A j \in 1 .. i + 1 : new[j] = IF j < i THEN ms[j]
                                     ELSE IF j = i THEN ms[i - 1] ELSE Answer(s)
  <1> DEFINE front == SubSeq(ms, 1, i - 1)
             two == <<ms[i - 1], Answer(s)>>
  <1>1. Len(ms) \in Nat /\ \A j \in 1 .. Len(ms) : ms[j] \in Message
    BY LenProperties
  <1>2. i \in 1 .. Len(ms) /\ i - 1 \in 1 .. Len(ms) /\ i \in Nat
    BY <1>1
  <1>3. Answer(s) \in Message
    BY MessageTypes, Bounds DEF Sends
  <1>4. two \in Seq(Message) /\ Len(two) = 2 /\ two[1] = ms[i - 1] /\ two[2] = Answer(s)
    BY <1>1, <1>2, <1>3
  <1>5. front \in Seq(Message) /\ Len(front) = i - 1 /\ \A j \in 1 .. i - 1 : front[j] = ms[j]
    BY <1>2, PrefixType
  <1> HIDE DEF front, two
  <1>6. /\ front \o two \in Seq(Message)
        /\ Len(front \o two) = i - 1 + 2
        /\ \A j \in 1 .. i - 1 + 2 : (front \o two)[j] =
               IF j <= i - 1 THEN front[j] ELSE two[j - (i - 1)]
    <2>1. /\ front \o two \in Seq(Message)
          /\ Len(front \o two) = Len(front) + Len(two)
          /\ \A j \in 1 .. Len(front) + Len(two) : (front \o two)[j] =
                 IF j <= Len(front) THEN front[j] ELSE two[j - Len(front)]
      BY <1>4, <1>5, ConcatProperties
    <2>2. Len(front) = i - 1 /\ Len(two) = 2
      BY <1>4, <1>5
    <2> QED BY <2>1, <2>2
  <1>7. ASSUME NEW j \in 1 .. i + 1
        PROVE  (front \o two)[j] = IF j < i THEN ms[j]
                                   ELSE IF j = i THEN ms[i - 1] ELSE Answer(s)
    <2>1. (front \o two)[j] = IF j <= i - 1 THEN front[j] ELSE two[j - (i - 1)]
      BY <1>2, <1>6
    <2>2. CASE j < i
      <3>1. j <= i - 1 /\ j \in 1 .. i - 1
        BY <1>2, <2>2
      <3> QED BY <2>1, <2>2, <3>1, <1>5
    <2>3. CASE j = i
      <3>1. j - (i - 1) = 1 /\ ~(j <= i - 1) /\ ~(j < i)
        BY <1>2, <2>3
      <3> QED BY <2>1, <2>3, <3>1, <1>4
    <2>4. CASE j = i + 1
      <3>1. j - (i - 1) = 2 /\ ~(j <= i - 1) /\ ~(j < i) /\ j # i
        BY <1>2, <2>4
      <3> QED BY <2>1, <3>1, <1>4
    <2>5. j < i \/ j = i \/ j = i + 1
      BY <1>2
    <2> QED BY <2>2, <2>3, <2>4, <2>5
  <1>8. Len(front \o two) = i + 1
    BY <1>2, <1>6
  <1> QED BY <1>6, <1>7, <1>8 DEF front, two

-----------------------------------------------------------------------------
(* Every step keeps the types, the numbering and the selection.            *)

LEMMA BeginType ==
  ASSUME Types, NEW s \in Sends, NEW target \in Ids \cup {NoId}, NEW typed \in BOOLEAN,
         Begin(s, target, typed)
  PROVE  /\ loading' \in BOOLEAN /\ controller' \in 0 .. MaxSends
         /\ send' \in [Sends -> [phase : Phases, cancelled : BOOLEAN, target : Ids \cup {NoId},
                                 typed : BOOLEAN, synced : BOOLEAN]]
  BY Bounds DEF Begin, Types, TypeOK, Phases, Sends

LEMMA NewConversationTypes ==
  ASSUME Types, clicks' \in 0 .. MaxClicks, NewConversation
  PROVE  Types'
  <1>1. EnsureConversation(1) /\ made' = made + 1 /\ made + 1 <= MaxConvs
    BY DEF NewConversation, EnsureConversation
  <1>2. Creates(1) \subseteq Known(made')
    BY <1>1, CreatesKnown
  <1>3. LoadIfEmpty(listed', saved, messages, currentId') \subseteq Known(made')
    BY <1>1, EnsureConversationMakes, LoadIfEmptyKnown
  <1>4. requests' \subseteq Known(made')
    BY <1>1, <1>2, <1>3, EnsureConversationMakes DEF NewConversation
  <1>5. requests' \subseteq Request
    BY <1>4 DEF Known
  <1> QED BY <1>1, <1>4, <1>5, EnsureConversationMakes
          DEF NewConversation, Types, TypeOK, Numbered, SelectedIsListed

LEMMA SelectConversationTypes ==
  ASSUME Types, clicks' \in 0 .. MaxClicks, NEW c \in Convs, SelectConversation(c)
  PROVE  Types'
  <1>1. LoadIfEmpty(listed, saved, messages, currentId') \subseteq Known(made)
    BY LoadIfEmptyKnown DEF Types, TypeOK
  <1>2. requests' \subseteq Known(made') /\ requests' \subseteq Request
    BY <1>1 DEF SelectConversation, Types, Numbered, Known
  <1>3. currentId' \in 0 .. made' /\ currentId' \in listed'
    BY DEF SelectConversation, Types, TypeOK
  <1> QED BY <1>2, <1>3 DEF SelectConversation, Types, TypeOK, Numbered, SelectedIsListed

LEMMA SubmitEmptyTypes ==
  ASSUME Types, clicks' \in 0 .. MaxClicks, SubmitEmpty
  PROVE  Types'
  <1> DEFINE n == Wanted
  <1>1. n \in {1, 2} /\ EnsureConversation(n) /\ made' = made + n /\ made + n <= MaxConvs
    BY DEF SubmitEmpty, EnsureConversation, Wanted
  <1>2. requests' = requests \cup Creates(n)
                   \cup LoadIfEmpty(listed', saved, messages, currentId')
    BY DEF SubmitEmpty
  <1> HIDE DEF n
  <1>3. Creates(n) \subseteq Known(made')
    BY <1>1, CreatesKnown
  <1>4. LoadIfEmpty(listed', saved, messages, currentId') \subseteq Known(made')
    BY <1>1, EnsureConversationMakes, LoadIfEmptyKnown
  <1>5. requests' \subseteq Known(made')
    BY <1>1, <1>2, <1>3, <1>4, EnsureConversationMakes
  <1>6. requests' \subseteq Request
    BY <1>5 DEF Known
  <1> QED BY <1>1, <1>5, <1>6, EnsureConversationMakes
          DEF SubmitEmpty, Types, TypeOK, Numbered, SelectedIsListed

\* What Ask does to the list, whether it makes conversations or not.
LEMMA AskMakes ==
  ASSUME Types, NEW s \in Sends, Ask(s)
  PROVE  /\ made \in Nat /\ made' \in 0 .. MaxConvs /\ made <= made'
         /\ listed' \subseteq Convs /\ listed' \subseteq 1 .. made' /\ listed \subseteq listed'
         /\ currentId' \in 0 .. made' /\ currentId' \in listed'
         /\ saved \subseteq 1 .. made'
         /\ requests \subseteq Known(made')
         /\ Creates(Wanted) \subseteq Known(made')
         /\ currentId = 0 => made + 1 \in Convs
  <1> DEFINE n == Wanted
  <1>1. CASE n = 0
    <2>1. listed' = listed /\ made' = made /\ currentId' = currentId
      BY <1>1 DEF Ask
    <2>2. currentId \in listed
      BY <1>1 DEF Wanted
    <2>3. made \in Nat /\ Creates(n) = {}
      BY <1>1, Bounds DEF Creates, Types, TypeOK
    <2>4. currentId # 0
      BY <1>1 DEF Wanted
    <2> QED BY <2>1, <2>2, <2>3, <2>4 DEF Types, TypeOK, Numbered
  <1>2. CASE n # 0
    <2>1. n \in {1, 2} /\ EnsureConversation(n)
      BY <1>2 DEF Ask, Wanted
    <2>2. made + n <= MaxConvs /\ made' = made + n
      BY <2>1 DEF EnsureConversation
    <2> HIDE DEF n
    <2>3. Creates(n) \subseteq Known(made')
      BY <2>1, <2>2, CreatesKnown
    <2>4. made <= made'
      BY <2>1, <2>2, EnsureConversationMakes
    <2> QED BY <2>1, <2>3, <2>4, EnsureConversationMakes DEF n
  <1> QED BY <1>1, <1>2

LEMMA AskTypes ==
  ASSUME Types, clicks' \in 0 .. MaxClicks, NEW s \in Sends, Ask(s)
  PROVE  Types'
  <1> DEFINE target == IF currentId = 0 THEN [conv |-> made + 1, saved |-> FALSE]
                                        ELSE IdOf(currentId)
  <1>1. target \in Ids
    <2>1. CASE currentId = 0
      BY <2>1, AskMakes DEF Ids
    <2>2. CASE currentId # 0
      <3>1. currentId \in Convs
        BY <2>2, Bounds DEF Types, TypeOK, Convs
      <3> QED BY <2>2, <3>1, IdOfType
    <2> QED BY <2>1, <2>2
  <1>2. /\ messages' = IF target.conv \in listed'
                       THEN [messages EXCEPT ![target.conv] = @ \o <<Question(s), Answer(s)>>]
                       ELSE messages
        /\ Begin(s, target, TRUE)
        /\ requests' = requests \cup Creates(Wanted) \cup Posts(target, s)
                       \cup LoadIfEmpty(listed', saved, messages', currentId')
    BY DEF Ask
  <1> HIDE DEF target
  <1>3. messages' \in [Convs -> Seq(Message)]
    <2>1. target.conv \in Convs
      BY <1>1 DEF Ids
    <2>2. messages[target.conv] \o <<Question(s), Answer(s)>> \in Seq(Message)
      BY <2>1, AskedTypes DEF Types, TypeOK
    <2> QED BY <1>2, <2>1, <2>2 DEF Types, TypeOK
  <1>4. Posts(target, s) \subseteq Known(made')
    BY <1>1, AskMakes, PostKnown, Bounds DEF Sends
  <1>5. LoadIfEmpty(listed', saved, messages', currentId') \subseteq Known(made')
    BY AskMakes, LoadIfEmptyKnown, Bounds
  <1>6. requests' \subseteq Known(made')
    BY <1>2, <1>4, <1>5, AskMakes
  <1>7. requests' \subseteq Request
    BY <1>6 DEF Known
  <1>8. /\ loading' \in BOOLEAN /\ controller' \in 0 .. MaxSends
        /\ send' \in [Sends -> [phase : Phases, cancelled : BOOLEAN, target : Ids \cup {NoId},
                                typed : BOOLEAN, synced : BOOLEAN]]
    BY <1>1, <1>2, BeginType
  <1>9. UNCHANGED <<saved, apiAvailable, pendingDelete, server, onServer, overtaken, moved>>
    BY DEF Ask
  <1>10. TypeOK'
    BY <1>3, <1>7, <1>8, <1>9, AskMakes DEF Types, TypeOK
  <1> QED BY <1>6, <1>9, <1>10, AskMakes DEF Types, Numbered, SelectedIsListed

LEMMA RegenerateTypes ==
  ASSUME Types, clicks' \in 0 .. MaxClicks, NEW s \in Sends, Regenerate(s)
  PROVE  Types'
  <1>1. currentId \in Convs /\ IdOf(currentId) \in Ids
    BY IdOfType DEF Regenerate, Types, TypeOK
  <1>2. Begin(s, IdOf(currentId), FALSE)
    BY DEF Regenerate
  <1>3. messages' \in [Convs -> Seq(Message)]
    <2>1. PICK i \in 2 .. Len(messages[currentId]) :
             messages' = [messages EXCEPT ![currentId] =
                            SubSeq(messages[currentId], 1, i - 1)
                            \o <<messages[currentId][i - 1], Answer(s)>>]
      BY DEF Regenerate
    <2>2. messages[currentId] \in Seq(Message)
      BY <1>1 DEF Types, TypeOK
    <2>3. SubSeq(messages[currentId], 1, i - 1)
             \o <<messages[currentId][i - 1], Answer(s)>> \in Seq(Message)
      BY <2>2, RegeneratedType
    <2> QED BY <2>1, <2>3 DEF Types, TypeOK
  <1>4. /\ loading' \in BOOLEAN /\ controller' \in 0 .. MaxSends
        /\ send' \in [Sends -> [phase : Phases, cancelled : BOOLEAN, target : Ids \cup {NoId},
                                typed : BOOLEAN, synced : BOOLEAN]]
    BY <1>1, <1>2, BeginType
  <1> QED BY <1>3, <1>4 DEF Regenerate, Types, TypeOK, Numbered, SelectedIsListed

LEMMA EditedType ==
  ASSUME Types, Edit
  PROVE  messages' \in [Convs -> Seq(Message)]
  <1> DEFINE ms == messages[currentId]
  <1>1. currentId \in Convs /\ ms \in Seq(Message)
    BY DEF Edit, Types, TypeOK
  <1>2. PICK i \in 1 .. Len(ms) :
           messages' = [messages EXCEPT ![currentId] = IF i = 1 THEN [ms EXCEPT ![1].about = 0]
                                                              ELSE SubSeq(ms, 1, i - 1)]
    BY DEF Edit
  <1> HIDE DEF ms
  <1>3. SubSeq(ms, 1, i - 1) \in Seq(Message)
    BY <1>1, PrefixType
  <1>4. ASSUME i = 1 PROVE [ms EXCEPT ![1].about = 0] \in Seq(Message)
    <2>1. 1 \in 1 .. Len(ms) /\ ms[1] \in Message
      BY <1>1, <1>4, LenProperties
    <2>2. [ms[1] EXCEPT !.about = 0] \in Message
      BY <2>1, Bounds DEF Message
    <2>3. [ms EXCEPT ![1] = [ms[1] EXCEPT !.about = 0]] \in Seq(Message)
      BY <1>1, <2>1, <2>2, ExceptSeq
    <2> QED BY <2>3
  <1> QED BY <1>1, <1>2, <1>3, <1>4 DEF Types, TypeOK

LEMMA EditTypes ==
  ASSUME Types, clicks' \in 0 .. MaxClicks, Edit
  PROVE  Types'
  BY EditedType DEF Edit, Types, TypeOK, Numbered, SelectedIsListed

LEMMA EditAndAskTypes ==
  ASSUME Types, clicks' \in 0 .. MaxClicks, NEW s \in Sends, EditAndAsk(s)
  PROVE  Types'
  <1>1. currentId \in Convs /\ IdOf(currentId) \in Ids
    BY IdOfType DEF EditAndAsk, Types, TypeOK
  <1>2. Begin(s, IdOf(currentId), TRUE)
    BY DEF EditAndAsk
  <1>3. messages' \in [Convs -> Seq(Message)]
    <2>1. messages[currentId] \o <<Question(s), Answer(s)>> \in Seq(Message)
      BY <1>1, AskedTypes DEF Types, TypeOK
    <2> QED BY <2>1 DEF EditAndAsk, Types, TypeOK
  <1>4. /\ loading' \in BOOLEAN /\ controller' \in 0 .. MaxSends
        /\ send' \in [Sends -> [phase : Phases, cancelled : BOOLEAN, target : Ids \cup {NoId},
                                typed : BOOLEAN, synced : BOOLEAN]]
    BY <1>1, <1>2, BeginType
  <1>5. requests' \subseteq Known(made')
    <2>1. Posts(IdOf(currentId), s) \subseteq Known(made)
      BY <1>1, PostKnown, Bounds DEF Sends, Types, TypeOK
    <2> QED BY <2>1 DEF EditAndAsk, Types, Numbered
  <1>6. requests' \subseteq Request
    BY <1>5 DEF Known
  <1> QED BY <1>3, <1>4, <1>5, <1>6 DEF EditAndAsk, Types, TypeOK, Numbered, SelectedIsListed

LEMMA CancelledType ==
  ASSUME Types
  PROVE  Cancelled(controller) \in [Sends -> [phase : Phases, cancelled : BOOLEAN,
                                             target : Ids \cup {NoId}, typed : BOOLEAN,
                                             synced : BOOLEAN]]
  <1>1. CASE controller = 0
    BY <1>1 DEF Cancelled, Types, TypeOK
  <1>2. CASE controller # 0
    <2>1. controller \in Sends
      BY <1>2, Bounds DEF Types, TypeOK, Sends
    <2>2. Cancelled(controller) = [send EXCEPT ![controller].cancelled = TRUE]
      BY <1>2 DEF Cancelled
    <2> QED BY <2>1, <2>2 DEF Types, TypeOK
  <1> QED BY <1>1, <1>2

LEMMA StopTypes ==
  ASSUME Types, clicks' \in 0 .. MaxClicks, Stop
  PROVE  Types'
  <1>1. messages' \in [Convs -> Seq(Message)]
    <2>1. \A c \in Convs : MarkStopped(messages[c], controller) \in Seq(Message)
      BY MapTypes DEF Types, TypeOK
    <2> QED BY <2>1 DEF Stop, Types, TypeOK
  <1>2. send' \in [Sends -> [phase : Phases, cancelled : BOOLEAN, target : Ids \cup {NoId},
                            typed : BOOLEAN, synced : BOOLEAN]]
    BY CancelledType DEF Stop
  <1>3. requests' \subseteq Known(made')
    <2>1. LoadIfEmpty(listed, saved, messages', currentId) \subseteq Known(made)
      BY LoadIfEmptyKnown DEF Types, TypeOK
    <2> QED BY <2>1 DEF Stop, Types, Numbered
  <1>4. requests' \subseteq Request
    BY <1>3 DEF Known
  <1> QED BY <1>1, <1>2, <1>3, <1>4 DEF Stop, Types, TypeOK, Numbered, SelectedIsListed

LEMMA DialogTypes ==
  ASSUME Types, clicks' \in 0 .. MaxClicks,
         CancelDelete \/ \E c \in Convs : DeleteConversation(c)
  PROVE  Types'
  BY IdOfType DEF CancelDelete, DeleteConversation, Types, TypeOK, Numbered, SelectedIsListed

\* What is left of the messages is of the same type.
LEMMA OnlyType ==
  ASSUME Types, NEW cs
  PROVE  Only(cs) \in [Convs -> Seq(Message)]
  BY DEF Only, Types, TypeOK

LEMMA ConfirmDeleteTypes ==
  ASSUME Types, clicks' \in 0 .. MaxClicks, ConfirmDelete
  PROVE  Types'
  <1>1. listed' \subseteq listed /\ made' = made /\ saved' = saved
    BY DEF ConfirmDelete
  <1>2. /\ currentId' \in 0 .. made'
        /\ listed' # {} => currentId' \in listed'
    <2>1. currentId' \in IF pendingDelete # IdOf(currentId) THEN Reselect(listed', currentId)
                         ELSE IF listed' = {} THEN {0} ELSE Newest(listed')
      BY ZenonT(30) DEF ConfirmDelete
    <2>2. currentId \in 0 .. made' /\ 0 \in 0 .. made' /\ listed' \subseteq 0 .. made'
      BY <1>1, Bounds DEF Types, TypeOK
    <2>3. CASE pendingDelete # IdOf(currentId)
      <3>1. currentId' \in Reselect(listed', currentId)
        BY <2>1, <2>3
      <3>2. /\ listed' # {} => currentId' \in listed'
            /\ currentId' \in listed' \/ currentId' = currentId
        BY <3>1, ReselectListed
      <3> QED BY <2>2, <3>2
    <2>4. CASE pendingDelete = IdOf(currentId)
      <3>1. currentId' \in IF listed' = {} THEN {0} ELSE Newest(listed')
        BY <2>1, <2>4
      <3>2. /\ listed' # {} => currentId' \in listed'
            /\ currentId' \in listed' \/ currentId' = 0
        BY <3>1, NewestListed
      <3> QED BY <2>2, <3>2
    <2> QED BY <2>3, <2>4
  <1>3. messages' \in [Convs -> Seq(Message)]
    BY OnlyType DEF ConfirmDelete
  <1>4. requests' \subseteq Known(made')
    <2>1. LoadIfEmpty(listed', saved, messages', currentId') \subseteq Known(made)
      BY <1>1, LoadIfEmptyKnown DEF Types, TypeOK
    <2>2. [kind |-> "delete", id |-> pendingDelete] \in Known(made)
      BY DEF ConfirmDelete, Known, Request, Types, TypeOK
    <2> QED BY <1>1, <2>1, <2>2 DEF ConfirmDelete, Types, Numbered
  <1>5. requests' \subseteq Request
    BY <1>4 DEF Known
  <1> QED BY <1>1, <1>2, <1>3, <1>4, <1>5 DEF ConfirmDelete, Types, TypeOK, Numbered, SelectedIsListed

LEMMA RenameTypes ==
  ASSUME Types, clicks' \in 0 .. MaxClicks, Rename
  PROVE  Types'
  <1>1. requests' \subseteq Known(made')
    <2>1. LoadIfEmpty(listed, saved, messages, currentId) \subseteq Known(made)
      BY LoadIfEmptyKnown DEF Types, TypeOK
    <2>2. Refused \in Known(made)
      BY RefusedKnown DEF Types, TypeOK
    <2> QED BY <2>1, <2>2 DEF Rename, Types, Numbered
  <1>2. requests' \subseteq Request
    BY <1>1 DEF Known
  <1> QED BY <1>1, <1>2 DEF Rename, Types, TypeOK, Numbered, SelectedIsListed

LEMMA RefreshTypes ==
  ASSUME Types, clicks' \in 0 .. MaxClicks, Refresh
  PROVE  Types'
  <1>1. [kind |-> "list"] \in Known(made)
    BY DEF Known, Request
  <1>2. requests' \subseteq Known(made') /\ requests' \subseteq Request
    BY <1>1 DEF Refresh, ui, Types, Numbered, Known
  <1> QED BY <1>2 DEF Refresh, ui, Types, TypeOK, Numbered, SelectedIsListed

LEMMA DeltaTypes ==
  ASSUME Types, NEW s \in Sends, Delta(s)
  PROVE  Types'
  <1>1. messages' \in [Convs -> Seq(Message)]
    <2>1. send[s].target.conv \in Convs
      BY DEF Delta, Finds, Types, TypeOK
    <2>2. Grow(messages[send[s].target.conv], s) \in Seq(Message)
      BY <2>1, MapTypes DEF Types, TypeOK
    <2> QED BY <2>1, <2>2 DEF Delta, Types, TypeOK
  <1>2. requests' \subseteq Known(made')
    <2>1. LoadIfEmpty(listed, saved, messages', currentId) \subseteq Known(made)
      BY LoadIfEmptyKnown DEF Types, TypeOK
    <2> QED BY <2>1 DEF Delta, Types, Numbered
  <1>3. requests' \subseteq Request
    BY <1>2 DEF Known
  <1> QED BY <1>1, <1>2, <1>3 DEF Delta, Types, TypeOK, Numbered, SelectedIsListed

LEMMA EndTypes ==
  ASSUME Types, NEW s \in Sends, End(s)
  PROVE  Types'
  <1> DEFINE id == send[s].target
  <1>1. id \in Ids \cup {NoId}
    BY DEF Types, TypeOK
  <1>2. messages' \in [Convs -> Seq(Message)]
    <2>1. CASE messages' = messages
      BY <2>1 DEF Types, TypeOK
    <2>2. CASE messages' # messages
      <3>1. PICK state \in {"done", "failed"} :
               /\ Finds(id)
               /\ messages' = [messages EXCEPT ![id.conv] = Replace(@, s, state, 1)]
        BY <2>2 DEF End
      <3>2. id.conv \in Convs
        BY <3>1 DEF Finds, Types, TypeOK
      <3>3. messages[id.conv] \in Seq(Message)
        BY <3>2 DEF Types, TypeOK
      <3>4. state \in States /\ 1 \in 0 .. 1
        BY DEF States
      <3>5. Replace(messages[id.conv], s, state, 1) \in Seq(Message)
        BY <3>3, <3>4, MapTypes
      <3> QED BY <3>1, <3>2, <3>5 DEF Types, TypeOK
    <2> QED BY <2>1, <2>2
  <1>3. send' \in [Sends -> [phase : Phases, cancelled : BOOLEAN, target : Ids \cup {NoId},
                            typed : BOOLEAN, synced : BOOLEAN]]
    BY DEF End, Unused, Phases, Types, TypeOK
  <1>4. requests' \subseteq Known(made')
    <2>1. LoadIfEmpty(listed, saved, messages', currentId) \subseteq Known(made)
      BY LoadIfEmptyKnown DEF Types, TypeOK
    <2>2. Post(id, 0) \in Known(made)
      BY <1>1, PostKnown, Bounds DEF Types, TypeOK
    <2>3. requests' \subseteq requests \cup {Post(id, 0)}
                              \cup LoadIfEmpty(listed, saved, messages', currentId)
      BY DEF End
    <2> QED BY <2>1, <2>2, <2>3 DEF End, Types, Numbered
  <1>5. requests' \subseteq Request
    BY <1>4 DEF Known
  <1>6. overtaken' \in BOOLEAN /\ controller' \in 0 .. MaxSends /\ loading' \in BOOLEAN
    <2>1. overtaken' = (overtaken \/ controller \notin {0, s}) /\ controller' = 0 /\ loading' = FALSE
      BY DEF End
    <2>2. 0 \in 0 .. MaxSends
      BY Bounds
    <2>3. overtaken' \in BOOLEAN
      BY <2>1, Zenon
    <2> QED BY <2>1, <2>2, <2>3
  <1>7. UNCHANGED <<clicks, listed, saved, currentId, made, apiAvailable, pendingDelete,
                    server, onServer, moved>>
    BY DEF End
  <1> QED BY <1>2, <1>3, <1>4, <1>5, <1>6, <1>7 DEF Types, TypeOK, Numbered, SelectedIsListed

LEMMA ListAnsweredTypes ==
  ASSUME Types, ListAnswered
  PROVE  Types'
  BY OnlyType DEF ListAnswered, Types, TypeOK, Numbered, SelectedIsListed

LEMMA RefusedAnsweredTypes ==
  ASSUME Types, RefusedAnswered
  PROVE  Types'
  BY DEF RefusedAnswered, Types, TypeOK, Numbered, SelectedIsListed

LEMMA CreateAnsweredTypes ==
  ASSUME Types, NEW c \in Convs, CreateAnswered(c)
  PROVE  Types'
  <1>1. c \in 1 .. made
    <2>1. [kind |-> "create", conv |-> c] \in Known(made)
      BY DEF CreateAnswered, Answered, Types, Numbered
    <2> QED BY <2>1, Bounds DEF Known, Types, TypeOK, Convs
  <1>2. CASE apiAvailable' = FALSE /\ UNCHANGED <<saved, onServer, currentId, moved, messages, listed>>
             /\ requests' \subseteq requests
    BY <1>2 DEF CreateAnswered, Types, TypeOK, Numbered, SelectedIsListed
  <1>3. CASE /\ saved' = saved \cup {c}
             /\ onServer' = onServer \cup {c}
             /\ currentId' \in Reselect(listed, c)
             /\ moved' = moved \cup {s \in Streaming : send[s].target = [conv |-> c, saved |-> FALSE]}
             /\ UNCHANGED <<messages, listed, apiAvailable>>
             /\ requests' = (requests \ {[kind |-> "create", conv |-> c]})
                            \cup LoadIfEmpty(listed, saved', messages, currentId')
    <2>1. UNCHANGED <<clicks, made, loading, controller, pendingDelete, send, server, overtaken>>
      BY DEF CreateAnswered
    <2>2. /\ listed # {} => currentId' \in listed
          /\ currentId' \in listed \/ currentId' = c
      BY <1>3, ReselectListed
    <2>3. currentId' \in 0 .. made
      <3>1. listed \subseteq 1 .. made /\ made \in Nat
        BY Bounds DEF Types, TypeOK
      <3>2. currentId' \in 1 .. made
        BY <1>1, <2>2, <3>1
      <3> QED BY <3>1, <3>2
    <2>4. LoadIfEmpty(listed, saved', messages, currentId') \subseteq Known(made)
      BY LoadIfEmptyKnown DEF Types, TypeOK
    <2>5. requests' \subseteq Known(made')
      BY <1>3, <2>1, <2>4 DEF Types, Numbered
    <2>6. requests' \subseteq Request
      BY <2>5 DEF Known
    <2>7. moved' \subseteq Sends
      BY <1>3 DEF Streaming, Types, TypeOK
    <2> QED BY <1>1, <1>3, <2>1, <2>2, <2>3, <2>5, <2>6, <2>7
            DEF Types, TypeOK, Numbered, SelectedIsListed
  <1> QED BY <1>2, <1>3 DEF CreateAnswered

LEMMA GetAnsweredTypes ==
  ASSUME Types, NEW c \in Convs, GetAnswered(c)
  PROVE  Types'
  <1>1. messages' \in [Convs -> Seq(Message)] /\ apiAvailable' \in BOOLEAN
    BY DEF GetAnswered, Types, TypeOK
  <1>2. requests' \subseteq Known(made')
    <2>1. LoadIfEmpty(listed, saved, messages', currentId) \subseteq Known(made)
      BY LoadIfEmptyKnown DEF Types, TypeOK
    <2> QED BY <2>1 DEF GetAnswered, Types, Numbered
  <1>3. requests' \subseteq Request
    BY <1>2 DEF Known
  <1>4. UNCHANGED <<clicks, listed, saved, currentId, made, loading, controller, pendingDelete,
                    send, server, onServer, overtaken, moved>>
    BY DEF GetAnswered
  <1> QED BY <1>1, <1>2, <1>3, <1>4 DEF Types, TypeOK, Numbered, SelectedIsListed

LEMMA StoredType ==
  ASSUME NEW ms \in Seq(Message), NEW q \in 0 .. MaxSends
  PROVE  /\ ms \o Stored(q) \in Seq(Message)
         /\ \A i \in 1 .. Len(ms \o Stored(q)) :
               \/ i \in 1 .. Len(ms) /\ (ms \o Stored(q))[i] = ms[i]
               \/ (ms \o Stored(q))[i] = Stored(q)[1] \/ (ms \o Stored(q))[i] = Stored(q)[2]
  <1>1. Stored(q) \in Seq(Message) /\ Len(Stored(q)) = 2
    <2>1. /\ [role |-> "user", about |-> q, state |-> "stored", text |-> 0] \in Message
          /\ [role |-> "assistant", about |-> 0, state |-> "stored", text |-> 0] \in Message
      BY Bounds DEF Message, States
    <2> QED BY <2>1 DEF Stored
  <1>2. /\ ms \o Stored(q) \in Seq(Message)
        /\ Len(ms \o Stored(q)) = Len(ms) + Len(Stored(q))
        /\ \A i \in 1 .. Len(ms) + Len(Stored(q)) : (ms \o Stored(q))[i] =
              IF i <= Len(ms) THEN ms[i] ELSE Stored(q)[i - Len(ms)]
    BY <1>1, ConcatProperties
  <1>3. Len(ms) \in Nat
    BY LenProperties
  <1>4. ASSUME NEW i \in 1 .. Len(ms) + 2
        PROVE  \/ i \in 1 .. Len(ms) /\ (ms \o Stored(q))[i] = ms[i]
               \/ (ms \o Stored(q))[i] = Stored(q)[1] \/ (ms \o Stored(q))[i] = Stored(q)[2]
    <2>1. (ms \o Stored(q))[i] = IF i <= Len(ms) THEN ms[i] ELSE Stored(q)[i - Len(ms)]
      BY <1>1, <1>2
    <2>2. \/ i \in 1 .. Len(ms) /\ i <= Len(ms)
          \/ ~(i <= Len(ms)) /\ i - Len(ms) = 1
          \/ ~(i <= Len(ms)) /\ i - Len(ms) = 2
      BY <1>3
    <2> QED BY <2>1, <2>2
  <1> QED BY <1>1, <1>2, <1>4

LEMMA PostAnsweredTypes ==
  ASSUME Types, NEW c \in Convs, NEW q \in 0 .. MaxSends, PostAnswered(c, q)
  PROVE  Types'
  <1>1. server' \in [Convs -> Seq(Message)]
    <2>1. server[c] \o Stored(q) \in Seq(Message)
      BY StoredType DEF Types, TypeOK
    <2> QED BY <2>1 DEF PostAnswered, Types, TypeOK
  <1>2. requests' \subseteq requests /\ apiAvailable' \in BOOLEAN
    BY DEF PostAnswered, Types, TypeOK
  <1> QED BY <1>1, <1>2 DEF PostAnswered, Types, TypeOK, Numbered, SelectedIsListed

LEMMA DeleteAnsweredTypes ==
  ASSUME Types, NEW id \in Ids, DeleteAnswered(id)
  PROVE  Types'
  BY DEF DeleteAnswered, Types, TypeOK, Numbered, SelectedIsListed

LEMMA InitTypes == Init => Types
  <1> SUFFICES ASSUME Init PROVE Types
    OBVIOUS
  <1>1. messages \in [Convs -> Seq(Message)] /\ server \in [Convs -> Seq(Message)]
    BY DEF Init
  <1>2. send \in [Sends -> [phase : Phases, cancelled : BOOLEAN, target : Ids \cup {NoId},
                           typed : BOOLEAN, synced : BOOLEAN]]
    BY DEF Init, Unused, Phases
  <1>3. 0 \in 0 .. MaxConvs /\ 0 \in 0 .. MaxSends /\ 0 \in 0 .. MaxClicks /\ 0 \in 0 .. 0
    BY Bounds
  <1> QED BY <1>1, <1>2, <1>3 DEF Init, Types, TypeOK, Numbered, SelectedIsListed

LEMMA NextTypes == Types /\ [Next]_vars => Types'
  <1> SUFFICES ASSUME Types, [Next]_vars PROVE Types'
    OBVIOUS
  <1>1. CASE User
    <2>1. clicks' \in 0 .. MaxClicks
      BY <1>1, Bounds DEF User, Types, TypeOK
    <2> QED BY <1>1, <2>1, NewConversationTypes, SelectConversationTypes, DialogTypes,
               SubmitEmptyTypes, AskTypes, RegenerateTypes, EditAndAskTypes, EditTypes, StopTypes,
               ConfirmDeleteTypes, RenameTypes, RefreshTypes DEF User
  <1>2. CASE Answers
    BY <1>2, ListAnsweredTypes, RefusedAnsweredTypes, CreateAnsweredTypes, GetAnsweredTypes,
       DeleteAnsweredTypes, PostAnsweredTypes DEF Answers
  <1>3. CASE \E s \in Sends : Delta(s) \/ End(s)
    BY <1>3, DeltaTypes, EndTypes
  <1>4. CASE UNCHANGED vars
    BY <1>4 DEF vars, ui, Types, TypeOK, Numbered, SelectedIsListed
  <1> QED BY <1>1, <1>2, <1>3, <1>4 DEF Next

\* Whatever the user does and in whatever order the answers arrive, the page
\* keeps a selection among the conversations it made, and asks the server
\* only about those.
THEOREM TypeCorrect == Spec => []TypeOK
  <1>1. Types => TypeOK
    BY DEF Types
  <1> QED BY InitTypes, NextTypes, <1>1, PTL DEF Spec

\* The conversation selected is one of the list.
THEOREM SelectionListed == Spec => []SelectedIsListed
  <1>1. Types => SelectedIsListed
    BY DEF Types
  <1> QED BY InitTypes, NextTypes, <1>1, PTL DEF Spec

-----------------------------------------------------------------------------
(* One stream at a time.                                                   *)

\* A question is only sent when nothing is streamed, and only then.
LEMMA BeginStream ==
  ASSUME Types, OneStreamUnlessOvertaken, ~loading, NEW s \in Sends, NEW target, NEW typed,
         Begin(s, target, typed), overtaken' = overtaken
  PROVE  OneStreamUnlessOvertaken'
  <1>1. /\ loading' = TRUE /\ controller' = s
        /\ send'[s].phase = "streaming" /\ send'[s].cancelled = FALSE
        /\ \A r \in Sends \ {s} : send'[r] = send[r]
    BY DEF Begin, Types, TypeOK
  <1>2. Live' = Live \cup {s}
    BY <1>1 DEF Live, Streaming
  <1> QED BY <1>1, <1>2 DEF OneStreamUnlessOvertaken

LEMMA StopStream ==
  ASSUME Types, OneStreamUnlessOvertaken, Stop
  PROVE  OneStreamUnlessOvertaken'
  <1>1. loading /\ loading' = FALSE /\ controller' = controller /\ overtaken' = overtaken
    BY DEF Stop
  <1>2. Live' = Live \ {controller}
    BY Bounds DEF Stop, Cancelled, Live, Streaming, Types, TypeOK, Sends
  <1> QED BY <1>1, <1>2 DEF OneStreamUnlessOvertaken

LEMMA EndStream ==
  ASSUME Types, OneStreamUnlessOvertaken, NEW s \in Sends, End(s)
  PROVE  OneStreamUnlessOvertaken'
  <1>1. /\ send' = [send EXCEPT ![s] = [Unused EXCEPT !.phase = "ended"]]
        /\ controller' = 0 /\ loading' = FALSE
        /\ overtaken' = (overtaken \/ controller \notin {0, s})
    BY DEF End
  <1>2. Live' = Live \ {s}
    BY <1>1 DEF Live, Streaming, Unused, Types, TypeOK
  <1>3. 0 \notin Live
    BY Bounds DEF Live, Streaming
  <1> QED BY <1>1, <1>2, <1>3 DEF OneStreamUnlessOvertaken

LEMMA OtherStream ==
  ASSUME OneStreamUnlessOvertaken, UNCHANGED <<send, loading, controller, overtaken>>
  PROVE  OneStreamUnlessOvertaken'
  BY DEF OneStreamUnlessOvertaken, Live, Streaming

LEMMA NextStream == Types /\ OneStreamUnlessOvertaken /\ [Next]_vars => OneStreamUnlessOvertaken'
  <1> SUFFICES ASSUME Types, OneStreamUnlessOvertaken, [Next]_vars
               PROVE  OneStreamUnlessOvertaken'
    OBVIOUS
  <1> USE DEF ui
  <1>1. CASE User
    <2>1. ASSUME NEW s \in Sends, Ask(s) \/ Regenerate(s) \/ EditAndAsk(s)
          PROVE  OneStreamUnlessOvertaken'
      <3>1. ~loading /\ overtaken' = overtaken
        BY <2>1 DEF Ask, Regenerate, EditAndAsk
      <3>2. CASE Ask(s)
        <4>1. Begin(s, IF currentId = 0 THEN [conv |-> made + 1, saved |-> FALSE]
                                        ELSE IdOf(currentId), TRUE)
          BY <3>2 DEF Ask
        <4> QED BY <3>1, <4>1, BeginStream
      <3>3. CASE Regenerate(s)
        <4>1. Begin(s, IdOf(currentId), FALSE)
          BY <3>3 DEF Regenerate
        <4> QED BY <3>1, <4>1, BeginStream
      <3>4. CASE EditAndAsk(s)
        <4>1. Begin(s, IdOf(currentId), TRUE)
          BY <3>4 DEF EditAndAsk
        <4> QED BY <3>1, <4>1, BeginStream
      <3> QED BY <2>1, <3>2, <3>3, <3>4
    <2>2. CASE Stop
      BY <2>2, StopStream
    <2>3. CASE \/ NewConversation \/ SubmitEmpty \/ Edit \/ CancelDelete \/ ConfirmDelete
               \/ Rename \/ Refresh
               \/ \E c \in Convs : SelectConversation(c) \/ DeleteConversation(c)
      BY <2>3, OtherStream
         DEF NewConversation, SubmitEmpty, Edit, CancelDelete, ConfirmDelete, Rename, Refresh,
             SelectConversation, DeleteConversation
    <2> QED BY <1>1, <2>1, <2>2, <2>3 DEF User
  <1>2. CASE Answers
    BY <1>2, OtherStream
       DEF Answers, ListAnswered, RefusedAnswered, CreateAnswered, GetAnswered, DeleteAnswered,
           PostAnswered
  <1>3. CASE \E s \in Sends : Delta(s) \/ End(s)
    BY <1>3, OtherStream, EndStream DEF Delta
  <1>4. CASE UNCHANGED vars
    BY <1>4, OtherStream DEF vars
  <1> QED BY <1>1, <1>2, <1>3, <1>4 DEF Next

\* "Stop" is on offer exactly while an answer is streamed, and reaches it,
\* unless a stopped stream ended after the next one had begun.
THEOREM OneStream == Spec => []OneStreamUnlessOvertaken
  <1>1. Init => OneStreamUnlessOvertaken
    BY DEF Init, OneStreamUnlessOvertaken, Live, Streaming, Unused
  <1> QED BY InitTypes, NextTypes, NextStream, <1>1, PTL DEF Spec

-----------------------------------------------------------------------------
(* What the messages say of the streams.                                   *)

\* A pending message has a stream that finds it, or one that lost it; the
\* stream of a stopped one has been cancelled or has ended.
Kept(m, c) ==
    /\ m.state = "pending" =>
          /\ m.role = "assistant"
          /\ m.about \in moved \/ (m.about \in Live /\ send[m.about].target = IdOf(c))
    /\ m.state = "stopped" =>
          /\ m.role = "assistant"
          /\ m.about \in Sends /\ m.about \notin Live
          /\ send[m.about].phase # "idle"

MessagesKept ==
    \A c \in Convs : /\ c \notin listed => messages[c] = <<>>
                     /\ \A i \in 1 .. Len(messages[c]) : Kept(messages[c][i], c)

\* The replies the server makes up are about none of the questions.
ServerKept ==
    \A c \in Convs : \A i \in 1 .. Len(server[c]) :
        /\ server[c][i].state = "stored"
        /\ server[c][i].role = "assistant" => server[c][i].about = 0

MovedBegan == \A s \in moved : send[s].phase # "idle"

IInv == Types /\ MessagesKept /\ ServerKept /\ MovedBegan

LEMMA MessagesTyped ==
  ASSUME Types, NEW c \in Convs
  PROVE  /\ messages[c] \in Seq(Message) /\ Len(messages[c]) \in Nat
         /\ DOMAIN messages[c] = 1 .. Len(messages[c])
         /\ \A i \in 1 .. Len(messages[c]) : messages[c][i] \in Message
  <1>1. messages[c] \in Seq(Message)
    BY DEF Types, TypeOK
  <1> QED BY <1>1, LenProperties

\* Nothing is said of a message that has been decided otherwise.
LEMMA DecidedKept ==
  ASSUME NEW m, NEW c, m.state \notin {"pending", "stopped"}
  PROVE  Kept(m, c) /\ Kept(m, c)'
  BY DEF Kept

LEMMA SameKept ==
  ASSUME UNCHANGED <<send, saved, moved>>, NEW m, NEW c, Kept(m, c)
  PROVE  Kept(m, c)'
  BY DEF Kept, Live, Streaming, IdOf

LEMMA FewerKept ==
  ASSUME IInv, UNCHANGED <<send, saved, moved>>,
         \A c \in Convs : messages'[c] = messages[c] \/ messages'[c] = <<>>,
         \A c \in Convs : c \notin listed' => messages'[c] = <<>>
  PROVE  MessagesKept'
  <1> SUFFICES ASSUME NEW c \in Convs, NEW i \in 1 .. Len(messages'[c]),
                      NEW m, m = messages'[c][i]
               PROVE  Kept(m, c)'
    BY DEF MessagesKept, Kept
  <1>1. messages'[c] = messages[c]
    OBVIOUS
  <1>2. Kept(m, c)
    BY <1>1 DEF IInv, MessagesKept
  <1> QED BY <1>2, SameKept

\* A new stream is about a question nothing was said of before.
LEMMA BeginKept ==
  ASSUME Types, NEW s \in Sends, NEW target, NEW typed, Begin(s, target, typed), IsNext(s),
         UNCHANGED <<saved, moved>>, NEW m, NEW c, Kept(m, c)
  PROVE  Kept(m, c)'
  <1>1. /\ send[s].phase = "idle" /\ s \notin Live
        /\ \A r \in Sends \ {s} : send'[r] = send[r]
    BY DEF Begin, IsNext, Live, Streaming, Types, TypeOK
  <1>2. \A r \in Sends \ {s} : r \in Live' <=> r \in Live
    BY <1>1 DEF Live, Streaming
  <1>3. Live \subseteq Sends
    BY DEF Live, Streaming
  <1> QED BY <1>1, <1>2, <1>3 DEF Kept, IdOf

LEMMA BegunKept ==
  ASSUME Types, NEW s \in Sends, NEW typed, NEW c, NEW target, Begin(s, target, typed),
         target = IdOf(c), UNCHANGED saved
  PROVE  /\ Kept(Answer(s), c)'
         /\ Kept(Question(s), c)'
  <1>1. send'[s].phase = "streaming" /\ send'[s].cancelled = FALSE /\ send'[s].target = IdOf(c)'
    BY DEF Begin, Types, TypeOK, IdOf
  <1>2. s \in Live'
    BY <1>1 DEF Live, Streaming
  <1> QED BY <1>1, <1>2 DEF Kept, Answer, Question

\* The steps that start a stream change one conversation, whose id the stream
\* is given.
LEMMA AskedKept ==
  ASSUME IInv, NEW s \in Sends, NEW target, NEW typed, Begin(s, target, typed), IsNext(s),
         UNCHANGED <<saved, moved>>,
         NEW d \in Convs, target = IdOf(d),
         listed \subseteq listed', d \in listed',
         \A c \in Convs \ {d} : messages'[c] = messages[c],
         \A i \in 1 .. Len(messages'[d]) :
            \/ messages'[d][i] \in {Question(s), Answer(s)}
            \/ \E j \in 1 .. Len(messages[d]) : messages'[d][i] = messages[d][j]
  PROVE  MessagesKept'
  <1>1. \A c \in Convs : c \notin listed' => messages'[c] = <<>>
    BY DEF IInv, MessagesKept
  <1> SUFFICES ASSUME NEW c \in Convs, NEW i \in 1 .. Len(messages'[c]),
                      NEW m, m = messages'[c][i]
               PROVE  Kept(m, c)'
    BY <1>1 DEF MessagesKept, Kept
  <1>2. CASE m \in {Question(s), Answer(s)} /\ c = d
    BY <1>2, BegunKept DEF IInv
  <1>3. CASE \E j \in 1 .. Len(messages[c]) : m = messages[c][j]
    <2>1. Kept(m, c)
      BY <1>3 DEF IInv, MessagesKept
    <2> QED BY <2>1, BeginKept DEF IInv
  <1> QED BY <1>2, <1>3

LEMMA AskKept ==
  ASSUME IInv, NEW s \in Sends, Ask(s)
  PROVE  MessagesKept'
  <1> DEFINE target == IF currentId = 0 THEN [conv |-> made + 1, saved |-> FALSE]
                                        ELSE IdOf(currentId)
             d == target.conv
  <1>1. /\ messages' = IF d \in listed'
                       THEN [messages EXCEPT ![d] = @ \o <<Question(s), Answer(s)>>]
                       ELSE messages
        /\ Begin(s, target, TRUE) /\ IsNext(s) /\ UNCHANGED <<saved, moved>>
    BY DEF Ask
  <1>2. d \in Convs /\ target = IdOf(d)
    <2>1. CASE currentId = 0
      <3>1. made + 1 \notin saved /\ made + 1 \in Convs
        BY <2>1, AskMakes DEF IInv, Types, Numbered
      <3>2. target = [conv |-> made + 1, saved |-> FALSE]
        BY <2>1
      <3>3. d = made + 1
        BY <3>2
      <3>4. (made + 1 \in saved) = FALSE
        BY <3>1
      <3>5. IdOf(made + 1) = [conv |-> made + 1, saved |-> FALSE]
        BY <3>4, Zenon DEF IdOf
      <3> QED BY <3>1, <3>2, <3>3, <3>5
    <2>2. CASE currentId # 0
      <3>1. currentId \in Convs
        BY <2>2, Bounds DEF IInv, Types, TypeOK, Convs
      <3> QED BY <2>2, <3>1 DEF IdOf
    <2> QED BY <2>1, <2>2
  <1> HIDE DEF target, d
  <1>3. listed \subseteq listed'
    BY AskMakes DEF IInv
  <1>4. messages \in [Convs -> Seq(Message)] /\ messages[d] \in Seq(Message)
    BY <1>2 DEF IInv, Types, TypeOK
  <1>5. CASE d \in listed'
    <2>1. messages'[d] = messages[d] \o <<Question(s), Answer(s)>>
      BY <1>1, <1>2, <1>4, <1>5
    <2>2. \A i \in 1 .. Len(messages'[d]) :
             \/ messages'[d][i] \in {Question(s), Answer(s)}
             \/ \E j \in 1 .. Len(messages[d]) : messages'[d][i] = messages[d][j]
      <3>1. /\ Len(messages'[d]) = Len(messages[d]) + 2
            /\ \A i \in 1 .. Len(messages[d]) + 2 : messages'[d][i] =
                  IF i <= Len(messages[d]) THEN messages[d][i]
                  ELSE IF i = Len(messages[d]) + 1 THEN Question(s) ELSE Answer(s)
        BY <1>4, <2>1, AskedTypes
      <3>2. Len(messages[d]) \in Nat
        BY <1>4, LenProperties
      <3> QED BY <3>1, <3>2
    <2>3. \A c \in Convs \ {d} : messages'[c] = messages[c]
      BY <1>1, <1>4, <1>5
    <2> QED BY <1>1, <1>2, <1>3, <1>5, <2>2, <2>3, AskedKept
  <1>6. CASE d \notin listed'
    <2>1. messages' = messages
      BY <1>1, <1>6
    <2> SUFFICES ASSUME NEW c \in Convs, NEW i \in 1 .. Len(messages'[c]),
                        NEW m, m = messages'[c][i]
                 PROVE  Kept(m, c)'
      BY <1>3, <2>1 DEF IInv, MessagesKept, Kept
    <2>2. Kept(m, c)
      BY <2>1 DEF IInv, MessagesKept
    <2> QED BY <1>1, <2>2, BeginKept DEF IInv
  <1> QED BY <1>5, <1>6

LEMMA RegenerateKept ==
  ASSUME IInv, NEW s \in Sends, Regenerate(s)
  PROVE  MessagesKept'
  <1> DEFINE ms == messages[currentId]
  <1>1. currentId \in Convs /\ currentId \in listed
    BY DEF Regenerate, IInv, Types, TypeOK
  <1>2. ms \in Seq(Message) /\ Len(ms) \in Nat
    BY <1>1, MessagesTyped DEF IInv
  <1>3. PICK i \in 2 .. Len(ms) :
           messages' = [messages EXCEPT ![currentId] =
                          SubSeq(ms, 1, i - 1) \o <<ms[i - 1], Answer(s)>>]
    BY DEF Regenerate
  <1>4. messages'[currentId] = SubSeq(ms, 1, i - 1) \o <<ms[i - 1], Answer(s)>>
    BY <1>1, <1>3 DEF IInv, Types, TypeOK
  <1>5. \A c \in Convs \ {currentId} : messages'[c] = messages[c]
    BY <1>3 DEF IInv, Types, TypeOK
  <1>6. Begin(s, IdOf(currentId), FALSE) /\ IsNext(s) /\ UNCHANGED <<saved, moved, listed>>
    BY DEF Regenerate
  <1> HIDE DEF ms
  <1>7. /\ Len(messages'[currentId]) = i + 1
        /\ \A j \in 1 .. i + 1 : messages'[currentId][j] =
              IF j < i THEN ms[j] ELSE IF j = i THEN ms[i - 1] ELSE Answer(s)
    <2> DEFINE new == SubSeq(ms, 1, i - 1) \o <<ms[i - 1], Answer(s)>>
    <2>1. /\ new \in Seq(Message) /\ Len(new) = i + 1
          /\ \A j \in 1 .. i + 1 : new[j] =
                IF j < i THEN ms[j] ELSE IF j = i THEN ms[i - 1] ELSE Answer(s)
      BY <1>2, RegeneratedType
    <2> QED BY <1>4, <2>1
  <1>8. \A j \in 1 .. Len(messages'[currentId]) :
           \/ messages'[currentId][j] \in {Question(s), Answer(s)}
           \/ \E k \in 1 .. Len(ms) : messages'[currentId][j] = ms[k]
    <2>1. i - 1 \in 1 .. Len(ms) /\ \A j \in 1 .. i + 1 : j < i => j \in 1 .. Len(ms)
      BY <1>2
    <2> QED BY <1>7, <2>1
  <1> QED BY <1>1, <1>5, <1>6, <1>8, AskedKept DEF ms

LEMMA EditAndAskKept ==
  ASSUME IInv, NEW s \in Sends, EditAndAsk(s)
  PROVE  MessagesKept'
  <1> DEFINE ms == messages[currentId]
  <1>1. currentId \in Convs /\ currentId \in listed
    BY DEF EditAndAsk, IInv, Types, TypeOK
  <1>2. ms \in Seq(Message) /\ Len(ms) \in Nat
    BY <1>1, MessagesTyped DEF IInv
  <1>3. messages' = [messages EXCEPT ![currentId] = ms \o <<Question(s), Answer(s)>>]
    BY DEF EditAndAsk
  <1>4. messages'[currentId] = ms \o <<Question(s), Answer(s)>>
    BY <1>1, <1>3 DEF IInv, Types, TypeOK
  <1>5. \A c \in Convs \ {currentId} : messages'[c] = messages[c]
    BY <1>3 DEF IInv, Types, TypeOK
  <1>6. Begin(s, IdOf(currentId), TRUE) /\ IsNext(s) /\ UNCHANGED <<saved, moved, listed>>
    BY DEF EditAndAsk
  <1> HIDE DEF ms
  <1>7. \A i \in 1 .. Len(messages'[currentId]) :
           \/ messages'[currentId][i] \in {Question(s), Answer(s)}
           \/ \E j \in 1 .. Len(ms) : messages'[currentId][i] = ms[j]
    <2>1. /\ Len(messages'[currentId]) = Len(ms) + 2
          /\ \A i \in 1 .. Len(ms) + 2 : messages'[currentId][i] =
                IF i <= Len(ms) THEN ms[i]
                ELSE IF i = Len(ms) + 1 THEN Question(s) ELSE Answer(s)
      BY <1>2, <1>4, AskedTypes
    <2> QED BY <1>2, <2>1
  <1> QED BY <1>1, <1>5, <1>6, <1>7, AskedKept DEF ms

LEMMA EditKept ==
  ASSUME IInv, Edit
  PROVE  MessagesKept'
  <1> DEFINE ms == messages[currentId]
  <1>1. currentId \in Convs /\ currentId \in listed /\ UNCHANGED <<listed, send, saved, moved>>
    BY DEF Edit, IInv, Types, TypeOK
  <1>2. /\ ms \in Seq(Message) /\ Len(ms) \in Nat /\ DOMAIN ms = 1 .. Len(ms)
        /\ \A i \in 1 .. Len(ms) : ms[i] \in Message
    BY <1>1, MessagesTyped DEF IInv
  <1>3. PICK i \in 1 .. Len(ms) :
           /\ ms[i].role = "user"
           /\ messages' = [messages EXCEPT ![currentId] = IF i = 1 THEN [ms EXCEPT ![1].about = 0]
                                                              ELSE SubSeq(ms, 1, i - 1)]
    BY DEF Edit
  <1>4. messages'[currentId] = IF i = 1 THEN [ms EXCEPT ![1].about = 0] ELSE SubSeq(ms, 1, i - 1)
    BY <1>1, <1>3 DEF IInv, Types, TypeOK
  <1>5. \A c \in Convs \ {currentId} : messages'[c] = messages[c]
    BY <1>3 DEF IInv, Types, TypeOK
  <1> SUFFICES ASSUME NEW c \in Convs, NEW j \in 1 .. Len(messages'[c]),
                      NEW m, m = messages'[c][j]
               PROVE  Kept(m, c)'
    BY <1>1, <1>5 DEF IInv, MessagesKept, Kept
  <1>6. \A k \in 1 .. Len(ms) : Kept(ms[k], currentId)
    BY <1>1 DEF IInv, MessagesKept
  <1>7. CASE c # currentId
    <2>1. Kept(m, c)
      BY <1>5, <1>7 DEF IInv, MessagesKept
    <2> QED BY <1>1, <2>1, SameKept
  <1> HIDE DEF ms
  <1>8. CASE c = currentId /\ i # 1
    <2>1. /\ Len(SubSeq(ms, 1, i - 1)) = i - 1
          /\ \A k \in 1 .. i - 1 : SubSeq(ms, 1, i - 1)[k] = ms[k]
      BY <1>2, PrefixType
    <2>2. j \in 1 .. Len(ms) /\ m = ms[j]
      BY <1>2, <1>4, <1>8, <2>1
    <2>3. Kept(m, c)
      BY <1>6, <1>8, <2>2
    <2> QED BY <1>1, <2>3, SameKept
  <1>9. CASE c = currentId /\ i = 1
    <2>1. /\ messages'[c] = [ms EXCEPT ![1].about = 0]
          /\ 1 \in 1 .. Len(ms) /\ ms[1].role = "user" /\ ms[1] \in Message
      BY <1>2, <1>3, <1>4, <1>9
    <2>2. messages'[c] = [ms EXCEPT ![1] = [ms[1] EXCEPT !.about = 0]]
      BY <2>1
    <2>3. DOMAIN messages'[c] = 1 .. Len(ms) /\ Len(messages'[c]) = Len(ms)
      BY <1>2, <2>2
    <2>4. CASE j = 1
      <3>1. m = [ms[1] EXCEPT !.about = 0]
        BY <1>2, <2>1, <2>2, <2>4
      <3>2. m.state = ms[1].state
        BY <2>1, <3>1 DEF Message
      <3>3. ms[1].state \notin {"pending", "stopped"}
        BY <1>6, <2>1 DEF Kept
      <3> QED BY <3>2, <3>3, DecidedKept
    <2>5. CASE j # 1
      <3>1. j \in 1 .. Len(ms) /\ m = ms[j]
        BY <1>2, <2>2, <2>3, <2>5
      <3>2. Kept(m, c)
        BY <1>6, <1>9, <3>1
      <3> QED BY <1>1, <3>2, SameKept
    <2> QED BY <2>4, <2>5
  <1> QED BY <1>7, <1>8, <1>9

LEMMA StopKept ==
  ASSUME IInv, Stop
  PROVE  MessagesKept'
  <1>1. /\ UNCHANGED <<listed, saved, moved, controller>>
        /\ \A c \in Convs : messages'[c] = IF c \in listed THEN MarkStopped(messages[c], controller)
                                                           ELSE messages[c]
    BY DEF Stop
  <1>2. /\ \A r \in Sends \ {controller} : send'[r] = send[r]
        /\ \A r \in Sends : /\ send'[r].phase = send[r].phase
                            /\ send'[r].target = send[r].target
        /\ Live' = Live \ {controller}
    BY Bounds DEF Stop, Cancelled, Live, Streaming, IInv, Types, TypeOK, Sends
  <1>3. Live \subseteq Sends /\ moved \subseteq Sends
    BY DEF Live, Streaming, IInv, Types, TypeOK
  <1>4. \A r \in Live : send[r].phase # "idle"
    BY DEF Live, Streaming
  <1> SUFFICES ASSUME NEW c \in Convs, NEW i \in 1 .. Len(messages'[c]),
                      NEW m, m = messages'[c][i]
               PROVE  Kept(m, c)'
    BY <1>1 DEF IInv, MessagesKept, Kept
  <1>5. CASE c \notin listed
    BY <1>1, <1>5 DEF IInv, MessagesKept
  <1>6. CASE c \in listed
    <2> DEFINE old == messages[c][i]
    <2>1. messages'[c] = [k \in 1 .. Len(messages[c]) |->
                            IF IsAnswer(messages[c][k], controller) /\ messages[c][k].state = "pending"
                            THEN [messages[c][k] EXCEPT !.state = "stopped"] ELSE messages[c][k]]
      BY <1>1, <1>6, MessagesTyped DEF MarkStopped, IInv
    <2>2. i \in 1 .. Len(messages[c]) /\ old \in Message /\ Kept(old, c)
      <3>1. Len(messages'[c]) = Len(messages[c])
        BY <2>1, MessagesTyped DEF IInv
      <3> QED BY <3>1, MessagesTyped DEF IInv, MessagesKept
    <2>3. m = IF IsAnswer(old, controller) /\ old.state = "pending"
              THEN [old EXCEPT !.state = "stopped"] ELSE old
      BY <2>1, <2>2
    <2> HIDE DEF old
    <2>4. CASE IsAnswer(old, controller) /\ old.state = "pending"
      <3>1. m.state = "stopped" /\ m.role = "assistant" /\ m.about = controller
        BY <2>2, <2>3, <2>4 DEF IsAnswer, Message
      <3>2. controller \in Sends /\ send[controller].phase # "idle"
        BY <1>3, <1>4, <2>2, <2>4 DEF Kept, IsAnswer, IInv, MovedBegan
      <3> QED BY <1>2, <3>1, <3>2 DEF Kept
    <2>5. CASE ~(IsAnswer(old, controller) /\ old.state = "pending")
      <3>1. m = old
        BY <2>3, <2>5
      <3> QED BY <1>1, <1>2, <1>3, <2>2, <2>5, <3>1 DEF Kept, IsAnswer, IdOf
    <2> QED BY <2>4, <2>5
  <1> QED BY <1>5, <1>6

LEMMA DeltaKept ==
  ASSUME IInv, NEW s \in Sends, Delta(s)
  PROVE  MessagesKept'
  <1> DEFINE d == send[s].target.conv
  <1>1. /\ d \in Convs /\ d \in listed /\ UNCHANGED <<listed, send, saved, moved>>
        /\ messages' = [messages EXCEPT ![d] = Grow(@, s)]
    BY DEF Delta, Finds, IInv, Types, TypeOK
  <1> HIDE DEF d
  <1>2. /\ \A c \in Convs \ {d} : messages'[c] = messages[c]
        /\ messages'[d] = Grow(messages[d], s)
    BY <1>1 DEF IInv, Types, TypeOK
  <1> SUFFICES ASSUME NEW c \in Convs, NEW i \in 1 .. Len(messages'[c]),
                      NEW m, m = messages'[c][i]
               PROVE  Kept(m, c)'
    BY <1>1, <1>2 DEF IInv, MessagesKept, Kept
  <1>3. CASE c # d
    <2>1. Kept(m, c)
      BY <1>2, <1>3 DEF IInv, MessagesKept
    <2> QED BY <1>1, <2>1, SameKept
  <1>4. CASE c = d
    <2>1. messages'[c] = [k \in 1 .. Len(messages[c]) |->
                            IF IsAnswer(messages[c][k], s) THEN [messages[c][k] EXCEPT !.text = 1]
                                                           ELSE messages[c][k]]
      BY <1>2, <1>4, MessagesTyped DEF Grow, IInv
    <2>2. /\ i \in 1 .. Len(messages[c])
          /\ messages[c][i] \in Message /\ Kept(messages[c][i], c)
      <3>1. Len(messages'[c]) = Len(messages[c])
        BY <2>1, MessagesTyped DEF IInv
      <3> QED BY <3>1, MessagesTyped DEF IInv, MessagesKept
    <2>3. /\ m.state = messages[c][i].state /\ m.role = messages[c][i].role
          /\ m.about = messages[c][i].about
      BY <2>1, <2>2 DEF Message
    <2>4. Kept(m, c)
      BY <2>2, <2>3 DEF Kept
    <2> QED BY <1>1, <2>4, SameKept
  <1> QED BY <1>3, <1>4

\* A stream that ends leaves no pending message that it still found.
LEMMA EndKept ==
  ASSUME IInv, NEW s \in Sends, End(s)
  PROVE  MessagesKept'
  <1> DEFINE id == send[s].target
  <1>1. /\ UNCHANGED <<listed, saved, moved>>
        /\ \A r \in Sends \ {s} : send'[r] = send[r]
        /\ send'[s].phase = "ended"
        /\ Live' = Live \ {s}
    BY DEF End, Live, Streaming, Unused, IInv, Types, TypeOK
  <1>2. Live \subseteq Sends /\ moved \subseteq Sends
    BY DEF Live, Streaming, IInv, Types, TypeOK
  <1>3. ASSUME NEW m, NEW c \in Convs, Kept(m, c), m.state = "pending" => m.about \in moved \/ m.about # s
        PROVE  Kept(m, c)'
    BY <1>1, <1>2, <1>3 DEF Kept, IdOf
  <1>4. CASE messages' = messages /\ (send[s].cancelled \/ ~Finds(id))
    <2> SUFFICES ASSUME NEW c \in Convs, NEW i \in 1 .. Len(messages'[c]),
                        NEW m, m = messages'[c][i]
                 PROVE  Kept(m, c)'
      BY <1>1, <1>4 DEF IInv, MessagesKept, Kept
    <2>1. Kept(m, c) /\ c \in listed
      BY <1>4 DEF IInv, MessagesKept
    <2>2. ASSUME m.state = "pending", m.about = s, m.about \notin moved
          PROVE  FALSE
      <3>1. s \in Live /\ id = IdOf(c)
        BY <2>1, <2>2 DEF Kept
      <3>2. Finds(id)
        BY <2>1, <3>1 DEF Finds, IdOf
      <3> QED BY <1>4, <3>1, <3>2 DEF Live
    <2> QED BY <1>3, <2>1, <2>2
  <1>5. CASE \E state \in {"done", "failed"} :
                Finds(id) /\ messages' = [messages EXCEPT ![id.conv] = Replace(@, s, state, 1)]
    <2> DEFINE d == id.conv
    <2>1. PICK state \in {"done", "failed"} :
             messages' = [messages EXCEPT ![d] = Replace(@, s, state, 1)]
      BY <1>5
    <2>2. d \in Convs /\ d \in listed /\ id = IdOf(d)
      BY <1>5 DEF Finds, IInv, Types, TypeOK
    <2> HIDE DEF d
    <2>3. /\ \A c \in Convs \ {d} : messages'[c] = messages[c]
          /\ messages'[d] = Replace(messages[d], s, state, 1)
      BY <2>1, <2>2 DEF IInv, Types, TypeOK
    <2> SUFFICES ASSUME NEW c \in Convs, NEW i \in 1 .. Len(messages'[c]),
                        NEW m, m = messages'[c][i]
                 PROVE  Kept(m, c)'
      BY <1>1, <2>2, <2>3 DEF IInv, MessagesKept, Kept
    <2>4. CASE c # d
      <3>1. Kept(m, c)
        BY <2>3, <2>4 DEF IInv, MessagesKept
      <3>2. IdOf(c) # IdOf(d)
        BY <2>4 DEF IdOf
      <3>3. m.state = "pending" => m.about \in moved \/ m.about # s
        BY <2>2, <3>1, <3>2 DEF Kept
      <3> QED BY <1>3, <3>1, <3>3
    <2>5. CASE c = d
      <3> DEFINE old == messages[c][i]
      <3>1. messages'[c] = [k \in 1 .. Len(messages[c]) |->
                              IF IsAnswer(messages[c][k], s)
                              THEN [messages[c][k] EXCEPT !.state = state, !.text = 1]
                              ELSE messages[c][k]]
        BY <2>3, <2>5, MessagesTyped DEF Replace, IInv
      <3>2. i \in 1 .. Len(messages[c]) /\ old \in Message /\ Kept(old, c)
        <4>1. Len(messages[c]) \in Nat /\ \A k \in 1 .. Len(messages[c]) : messages[c][k] \in Message
          BY MessagesTyped DEF IInv
        <4>2. DOMAIN messages'[c] = 1 .. Len(messages[c])
          BY <3>1
        <4>3. DOMAIN messages'[c] = 1 .. Len(messages'[c]) /\ Len(messages'[c]) \in Nat
          <5>1. messages'[c] \in Seq(Message)
            BY EndTypes DEF IInv, Types, TypeOK
          <5> QED BY <5>1, LenProperties
        <4>4. Len(messages'[c]) = Len(messages[c])
          BY <4>1, <4>2, <4>3
        <4> QED BY <4>1, <4>4 DEF IInv, MessagesKept
      <3>3. m = IF IsAnswer(old, s) THEN [old EXCEPT !.state = state, !.text = 1] ELSE old
        BY <3>1, <3>2
      <3> HIDE DEF old
      <3>4. CASE IsAnswer(old, s)
        <4>1. m.state = state
          BY <3>2, <3>3, <3>4 DEF Message
        <4> QED BY <4>1, DecidedKept
      <3>5. CASE ~IsAnswer(old, s)
        <4>1. m = old /\ (m.state = "pending" => m.about # s)
          BY <3>2, <3>3, <3>5 DEF Kept, IsAnswer
        <4> QED BY <1>3, <3>2, <4>1
      <3> QED BY <3>4, <3>5
    <2> QED BY <2>4, <2>5
  <1>6. \/ messages' = messages /\ (send[s].cancelled \/ ~Finds(id))
        \/ \E state \in {"done", "failed"} :
              Finds(id) /\ messages' = [messages EXCEPT ![id.conv] = Replace(@, s, state, 1)]
    BY DEF End
  <1> QED BY <1>4, <1>5, <1>6

LEMMA CreateAnsweredKept ==
  ASSUME IInv, NEW d \in Convs, CreateAnswered(d)
  PROVE  MessagesKept'
  <1>1. UNCHANGED <<send, messages, listed>>
    BY DEF CreateAnswered
  <1>2. CASE UNCHANGED <<saved, moved>>
    BY <1>1, <1>2, FewerKept DEF IInv, MessagesKept
  <1>3. CASE /\ saved' = saved \cup {d}
             /\ moved' = moved \cup {s \in Streaming : send[s].target = [conv |-> d, saved |-> FALSE]}
    <2> SUFFICES ASSUME NEW c \in Convs, NEW i \in 1 .. Len(messages'[c]),
                        NEW m, m = messages'[c][i]
                 PROVE  Kept(m, c)'
      BY <1>1 DEF IInv, MessagesKept, Kept
    <2>1. Kept(m, c)
      BY <1>1 DEF IInv, MessagesKept
    <2>2. Live' = Live
      BY <1>1 DEF Live, Streaming
    <2>3. ASSUME m.state = "pending", m.about \in Live, send[m.about].target = IdOf(c)
          PROVE  m.about \in moved' \/ IdOf(c)' = IdOf(c)
      <3>1. CASE c = d /\ c \notin saved
        <4>1. (c \in saved) = FALSE
          BY <3>1
        <4>2. IdOf(c) = [conv |-> d, saved |-> FALSE]
          BY <3>1, <4>1, Zenon DEF IdOf
        <4> QED BY <1>3, <2>3, <4>2 DEF Live
      <3>2. CASE c # d \/ c \in saved
        <4>1. (c \in saved') = (c \in saved)
          BY <1>3, <3>2
        <4> QED BY <4>1, Zenon DEF IdOf
      <3> QED BY <3>1, <3>2
    <2> QED BY <1>1, <1>3, <2>1, <2>2, <2>3 DEF Kept
  <1> QED BY <1>2, <1>3 DEF CreateAnswered

LEMMA GetAnsweredKept ==
  ASSUME IInv, NEW d \in Convs, GetAnswered(d)
  PROVE  MessagesKept'
  <1>1. UNCHANGED <<send, saved, moved, listed>>
    BY DEF GetAnswered
  <1>2. CASE messages' = messages
    BY <1>1, <1>2, FewerKept DEF IInv, MessagesKept
  <1>3. CASE messages' = [messages EXCEPT ![d] = server[d]] /\ d \in listed
    <2>1. messages'[d] = server[d] /\ \A c \in Convs \ {d} : messages'[c] = messages[c]
      BY <1>3 DEF IInv, Types, TypeOK
    <2> SUFFICES ASSUME NEW c \in Convs, NEW i \in 1 .. Len(messages'[c]),
                        NEW m, m = messages'[c][i]
                 PROVE  Kept(m, c)'
      BY <1>1, <1>3, <2>1 DEF IInv, MessagesKept, Kept
    <2>2. CASE c = d
      BY <2>1, <2>2, DecidedKept DEF IInv, ServerKept
    <2>3. CASE c # d
      <3>1. Kept(m, c)
        BY <2>1, <2>3 DEF IInv, MessagesKept
      <3> QED BY <1>1, <3>1, SameKept
    <2> QED BY <2>2, <2>3
  <1> QED BY <1>2, <1>3 DEF GetAnswered

LEMMA PostAnsweredKept ==
  ASSUME IInv, NEW d \in Convs, NEW q \in 0 .. MaxSends, PostAnswered(d, q)
  PROVE  ServerKept'
  <1>1. CASE server' = server
    BY <1>1 DEF IInv, ServerKept
  <1>2. CASE server' = [server EXCEPT ![d] = @ \o Stored(q)]
    <2>1. /\ server'[d] = server[d] \o Stored(q) /\ server[d] \in Seq(Message)
          /\ \A c \in Convs \ {d} : server'[c] = server[c]
      BY <1>2 DEF IInv, Types, TypeOK
    <2> DEFINE Good(m) == m.state = "stored" /\ (m.role = "assistant" => m.about = 0)
    <2>2. Good(Stored(q)[1]) /\ Good(Stored(q)[2])
      BY DEF Stored
    <2>3. \A i \in 1 .. Len(server[d]) : Good(server[d][i])
      BY DEF IInv, ServerKept
    <2>4. \A i \in 1 .. Len(server[d] \o Stored(q)) :
             \/ i \in 1 .. Len(server[d]) /\ (server[d] \o Stored(q))[i] = server[d][i]
             \/ (server[d] \o Stored(q))[i] = Stored(q)[1]
             \/ (server[d] \o Stored(q))[i] = Stored(q)[2]
      BY <2>1, StoredType
    <2> HIDE DEF Good
    <2>5. \A i \in 1 .. Len(server'[d]) : Good(server'[d][i])
      BY <2>1, <2>2, <2>3, <2>4
    <2>6. \A c \in Convs \ {d} : \A i \in 1 .. Len(server'[c]) : Good(server'[c][i])
      BY <2>1 DEF IInv, ServerKept, Good
    <2>7. \A c \in Convs : \A i \in 1 .. Len(server'[c]) : Good(server'[c][i])
      BY <2>5, <2>6
    <2> QED BY <2>7 DEF ServerKept, Good
  <1> QED BY <1>1, <1>2 DEF PostAnswered

LEMMA ServerSame ==
  ASSUME IInv, server' = server
  PROVE  ServerKept'
  BY DEF IInv, ServerKept

\* A stream that lost its conversation had begun, and none begins again.
LEMMA MovedSame ==
  ASSUME IInv, moved' \subseteq moved \cup Streaming,
         \A s \in Sends : send'[s].phase = send[s].phase \/ send'[s].phase # "idle"
  PROVE  MovedBegan'
  <1>1. moved \subseteq Sends
    BY DEF IInv, Types, TypeOK
  <1> QED BY <1>1 DEF IInv, MovedBegan, Streaming

LEMMA BeginMoved ==
  ASSUME IInv, NEW s \in Sends, NEW target, NEW typed, Begin(s, target, typed), moved' = moved
  PROVE  MovedBegan'
  <1>1. \A r \in Sends : send'[r].phase = send[r].phase \/ send'[r].phase # "idle"
    BY DEF Begin, IInv, Types, TypeOK
  <1> QED BY <1>1, MovedSame

LEMMA InitInv == Init => IInv
  <1> SUFFICES ASSUME Init PROVE IInv
    OBVIOUS
  <1>1. \A c \in Convs : messages[c] = <<>> /\ server[c] = <<>> /\ 1 .. Len(<<>>) = {}
    BY DEF Init
  <1>2. MessagesKept /\ ServerKept
    BY <1>1 DEF MessagesKept, ServerKept
  <1>3. MovedBegan
    BY DEF Init, MovedBegan
  <1> QED BY <1>2, <1>3, InitTypes DEF IInv

LEMMA UserInv ==
  ASSUME IInv, User
  PROVE  MessagesKept' /\ ServerKept' /\ MovedBegan'
  <1> USE DEF ui
  <1>1. ASSUME NEW s \in Sends, Ask(s) \/ Regenerate(s) \/ EditAndAsk(s)
        PROVE  MessagesKept' /\ ServerKept' /\ MovedBegan'
    <2>1. MessagesKept'
      BY <1>1, AskKept, RegenerateKept, EditAndAskKept
    <2>2. server' = server /\ moved' = moved
      BY <1>1 DEF Ask, Regenerate, EditAndAsk
    <2>3. MovedBegan'
      <3>1. CASE Ask(s)
        <4>1. Begin(s, IF currentId = 0 THEN [conv |-> made + 1, saved |-> FALSE]
                                        ELSE IdOf(currentId), TRUE)
          BY <3>1 DEF Ask
        <4> QED BY <2>2, <4>1, BeginMoved
      <3>2. CASE Regenerate(s)
        <4>1. Begin(s, IdOf(currentId), FALSE)
          BY <3>2 DEF Regenerate
        <4> QED BY <2>2, <4>1, BeginMoved
      <3>3. CASE EditAndAsk(s)
        <4>1. Begin(s, IdOf(currentId), TRUE)
          BY <3>3 DEF EditAndAsk
        <4> QED BY <2>2, <4>1, BeginMoved
      <3> QED BY <1>1, <3>1, <3>2, <3>3
    <2> QED BY <2>1, <2>2, <2>3, ServerSame
  <1>2. CASE Stop
    <2>1. server' = server /\ moved' = moved
      BY <1>2 DEF Stop
    <2>2. \A s \in Sends : send'[s].phase = send[s].phase
      BY <1>2, Bounds DEF Stop, Cancelled, Sends, IInv, Types, TypeOK
    <2> QED BY <1>2, <2>1, <2>2, StopKept, ServerSame, MovedSame
  <1>3. CASE Edit
    <2>1. UNCHANGED <<server, moved, send>>
      BY <1>3 DEF Edit
    <2> QED BY <1>3, <2>1, EditKept, ServerSame, MovedSame
  <1>4. CASE \/ NewConversation \/ SubmitEmpty \/ CancelDelete \/ Rename \/ Refresh
             \/ \E c \in Convs : SelectConversation(c) \/ DeleteConversation(c)
    <2>1. UNCHANGED <<send, saved, moved, messages, server>> /\ listed \subseteq listed'
      BY <1>4 DEF NewConversation, SubmitEmpty, CancelDelete, Rename, Refresh, SelectConversation,
                  DeleteConversation, EnsureConversation
    <2>2. \A c \in Convs : c \notin listed' => messages'[c] = <<>>
      BY <2>1 DEF IInv, MessagesKept
    <2> QED BY <2>1, <2>2, FewerKept, ServerSame, MovedSame
  <1>5. CASE ConfirmDelete
    <2>1. UNCHANGED <<send, saved, moved, server>> /\ messages' = Only(listed')
      BY <1>5 DEF ConfirmDelete
    <2>2. \A c \in Convs : messages'[c] = IF c \in listed' THEN messages[c] ELSE <<>>
      BY <2>1 DEF Only
    <2> QED BY <2>1, <2>2, FewerKept, ServerSame, MovedSame
  <1> QED BY <1>1, <1>2, <1>3, <1>4, <1>5 DEF User

LEMMA AnswersInv ==
  ASSUME IInv, Answers
  PROVE  MessagesKept' /\ ServerKept' /\ MovedBegan'
  <1>1. CASE ListAnswered
    <2>1. UNCHANGED <<send, saved, moved, server>> /\ messages' = Only({})
      BY <1>1 DEF ListAnswered
    <2>2. \A c \in Convs : messages'[c] = <<>>
      BY <2>1 DEF Only
    <2> QED BY <2>1, <2>2, FewerKept, ServerSame, MovedSame
  <1>2. ASSUME NEW c \in Convs, CreateAnswered(c)
        PROVE  MessagesKept' /\ ServerKept' /\ MovedBegan'
    <2>1. server' = server /\ send' = send /\ moved' \subseteq moved \cup Streaming
      BY <1>2 DEF CreateAnswered
    <2> QED BY <1>2, <2>1, CreateAnsweredKept, ServerSame, MovedSame
  <1>3. ASSUME NEW c \in Convs, GetAnswered(c)
        PROVE  MessagesKept' /\ ServerKept' /\ MovedBegan'
    <2>1. UNCHANGED <<server, send, moved>>
      BY <1>3 DEF GetAnswered
    <2> QED BY <1>3, <2>1, GetAnsweredKept, ServerSame, MovedSame
  <1>4. CASE \/ RefusedAnswered \/ \E id \in Ids : DeleteAnswered(id)
             \/ \E c \in Convs, q \in 0 .. MaxSends : PostAnswered(c, q)
    <2>1. UNCHANGED <<send, saved, moved, messages, listed>>
      BY <1>4 DEF RefusedAnswered, DeleteAnswered, PostAnswered
    <2>2. MessagesKept'
      BY <2>1, FewerKept DEF IInv, MessagesKept
    <2>3. ServerKept'
      <3>1. CASE server' = server
        BY <3>1, ServerSame
      <3>2. CASE \E c \in Convs, q \in 0 .. MaxSends : PostAnswered(c, q)
        BY <3>2, PostAnsweredKept
      <3> QED BY <1>4, <3>1, <3>2 DEF RefusedAnswered, DeleteAnswered
    <2> QED BY <2>1, <2>2, <2>3, MovedSame
  <1> QED BY <1>1, <1>2, <1>3, <1>4 DEF Answers

LEMMA NextInv == IInv /\ [Next]_vars => IInv'
  <1> SUFFICES ASSUME IInv, [Next]_vars PROVE IInv'
    OBVIOUS
  <1>1. Types'
    BY NextTypes DEF IInv
  <1>2. CASE User
    BY <1>1, <1>2, UserInv DEF IInv
  <1>3. CASE Answers
    BY <1>1, <1>3, AnswersInv DEF IInv
  <1>4. ASSUME NEW s \in Sends, Delta(s)
        PROVE  IInv'
    <2>1. UNCHANGED <<server, send, moved>>
      BY <1>4 DEF Delta
    <2> QED BY <1>1, <1>4, <2>1, DeltaKept, ServerSame, MovedSame DEF IInv
  <1>5. ASSUME NEW s \in Sends, End(s)
        PROVE  IInv'
    <2>1. server' = server /\ moved' = moved
      BY <1>5 DEF End
    <2>2. \A r \in Sends : send'[r].phase = send[r].phase \/ send'[r].phase # "idle"
      BY <1>5 DEF End, Unused, IInv, Types, TypeOK
    <2> QED BY <1>1, <1>5, <2>1, <2>2, EndKept, ServerSame, MovedSame DEF IInv
  <1>6. CASE UNCHANGED vars
    <2>1. UNCHANGED <<send, saved, moved, messages, listed, server>>
      BY <1>6 DEF vars, ui
    <2>2. MessagesKept'
      BY <2>1, FewerKept DEF IInv, MessagesKept
    <2> QED BY <1>1, <2>1, <2>2, ServerSame, MovedSame DEF IInv
  <1> QED BY <1>2, <1>3, <1>4, <1>5, <1>6 DEF Next

\* A message on the page is pending only while its stream can still end it,
\* unless the conversation changed its id under the stream.
THEOREM PendingLive == Spec => []PendingIsLive
  <1>1. IInv => PendingIsLive
    <2> SUFFICES ASSUME IInv, NEW c \in listed, NEW i \in DOMAIN messages[c],
                        messages[c][i].state = "pending"
                 PROVE  messages[c][i].about \in Live \cup moved
      BY DEF PendingIsLive
    <2>1. c \in Convs
      BY DEF IInv, Types, TypeOK
    <2>2. i \in 1 .. Len(messages[c])
      BY <2>1, MessagesTyped DEF IInv
    <2> QED BY <2>1, <2>2 DEF IInv, MessagesKept, Kept
  <1> QED BY InitInv, NextInv, <1>1, PTL DEF Spec

-----------------------------------------------------------------------------
(* What was stopped stays.                                                 *)

\* A stopped answer is about a question whose stream is over.
LEMMA StoppedIsOver ==
  ASSUME IInv, NEW c \in Convs, NEW i \in DOMAIN messages[c], messages[c][i].state = "stopped"
  PROVE  LET m == messages[c][i]
         IN  /\ i \in 1 .. Len(messages[c]) /\ m \in Message
             /\ m.role = "assistant" /\ m.about \in Sends /\ m.about \notin Live
             /\ send[m.about].phase # "idle"
  <1>1. i \in 1 .. Len(messages[c]) /\ messages[c][i] \in Message
    BY MessagesTyped DEF IInv
  <1> QED BY <1>1 DEF IInv, MessagesKept, Kept

LEMMA AskedStays ==
  ASSUME IInv, NEW s \in Sends, Ask(s) \/ EditAndAsk(s),
         NEW c \in Convs, NEW i \in 1 .. Len(messages[c])
  PROVE  messages'[c][i] = messages[c][i]
  <1>1. messages \in [Convs -> Seq(Message)] /\ messages[c] \in Seq(Message)
    BY DEF IInv, Types, TypeOK
  <1>2. (messages[c] \o <<Question(s), Answer(s)>>)[i] = messages[c][i]
    <2>1. Len(messages[c]) \in Nat
      BY <1>1, LenProperties
    <2>2. i \in 1 .. Len(messages[c]) + 2 /\ i <= Len(messages[c])
      BY <2>1
    <2> QED BY <1>1, <2>2, AskedTypes
  <1>3. messages' = messages \/ \E d \in Convs :
           messages' = [messages EXCEPT ![d] = @ \o <<Question(s), Answer(s)>>]
    <2>1. CASE EditAndAsk(s)
      <3>1. currentId \in Convs
        BY <2>1 DEF EditAndAsk, IInv, Types, TypeOK
      <3> QED BY <2>1, <3>1 DEF EditAndAsk
    <2>2. CASE Ask(s)
      <3>1. listed' \subseteq Convs
        BY <2>2, AskMakes DEF IInv
      <3> QED BY <2>2, <3>1 DEF Ask
    <2> QED BY <2>1, <2>2
  <1> QED BY <1>1, <1>2, <1>3

LEMMA RegeneratedStays ==
  ASSUME IInv, NEW s \in Sends, Regenerate(s),
         NEW c \in Convs, NEW i \in DOMAIN messages[c], messages[c][i].state = "stopped",
         i \in DOMAIN messages'[c], IsAnswer(messages'[c][i], messages[c][i].about)
  PROVE  messages'[c][i] = messages[c][i]
  <1> DEFINE ms == messages[currentId]
  <1>1. currentId \in Convs /\ ms \in Seq(Message) /\ Len(ms) \in Nat
    BY MessagesTyped DEF Regenerate, IInv, Types, TypeOK
  <1>2. PICK j \in 2 .. Len(ms) :
           /\ ms[j - 1].role = "user"
           /\ messages' = [messages EXCEPT ![currentId] =
                              SubSeq(ms, 1, j - 1) \o <<ms[j - 1], Answer(s)>>]
    BY DEF Regenerate
  <1> HIDE DEF ms
  <1>3. CASE c # currentId
    BY <1>2, <1>3 DEF IInv, Types, TypeOK
  <1>4. CASE c = currentId
    <2>1. messages'[c] = SubSeq(ms, 1, j - 1) \o <<ms[j - 1], Answer(s)>>
      BY <1>1, <1>2, <1>4 DEF IInv, Types, TypeOK
    <2>2. /\ messages'[c] \in Seq(Message) /\ Len(messages'[c]) = j + 1
          /\ \A k \in 1 .. j + 1 : messages'[c][k] =
                IF k < j THEN ms[k] ELSE IF k = j THEN ms[j - 1] ELSE Answer(s)
      <3> DEFINE new == SubSeq(ms, 1, j - 1) \o <<ms[j - 1], Answer(s)>>
      <3>1. /\ new \in Seq(Message) /\ Len(new) = j + 1
            /\ \A k \in 1 .. j + 1 : new[k] =
                  IF k < j THEN ms[k] ELSE IF k = j THEN ms[j - 1] ELSE Answer(s)
        BY <1>1, RegeneratedType
      <3> QED BY <2>1, <3>1
    <2>3. i \in 1 .. j + 1
      BY <2>2, LenProperties
    <2>4. messages'[c][i] \in {ms[i], ms[j - 1], Answer(s)}
      BY <2>2, <2>3
    <2>5. messages[c][i].about # s
      BY StoppedIsOver DEF Regenerate, IsNext
    <2>6. messages'[c][i] # Answer(s)
      BY <2>5 DEF IsAnswer, Answer
    <2>7. messages'[c][i] # ms[j - 1]
      BY <1>2 DEF IsAnswer
    <2> QED BY <1>4, <2>4, <2>6, <2>7 DEF ms
  <1> QED BY <1>3, <1>4

LEMMA EditedStays ==
  ASSUME IInv, Edit, NEW c \in Convs, NEW i \in DOMAIN messages[c],
         messages[c][i].state = "stopped", i \in DOMAIN messages'[c]
  PROVE  messages'[c][i] = messages[c][i]
  <1> DEFINE ms == messages[currentId]
  <1>1. /\ currentId \in Convs /\ ms \in Seq(Message) /\ Len(ms) \in Nat
        /\ DOMAIN ms = 1 .. Len(ms)
    BY MessagesTyped DEF Edit, IInv, Types, TypeOK
  <1>2. PICK j \in 1 .. Len(ms) :
           /\ ms[j].role = "user"
           /\ messages' = [messages EXCEPT ![currentId] = IF j = 1 THEN [ms EXCEPT ![1].about = 0]
                                                              ELSE SubSeq(ms, 1, j - 1)]
    BY DEF Edit
  <1>3. CASE c # currentId
    BY <1>2, <1>3 DEF IInv, Types, TypeOK
  <1>4. CASE c = currentId /\ j = 1
    <2>1. messages'[c] = [ms EXCEPT ![1].about = 0]
      BY <1>1, <1>2, <1>4 DEF IInv, Types, TypeOK
    <2>2. i # 1
      BY <1>2, <1>4, StoppedIsOver
    <2> QED BY <1>4, <2>1, <2>2
  <1>5. CASE c = currentId /\ j # 1
    <2>1. messages'[c] = SubSeq(ms, 1, j - 1)
      BY <1>1, <1>2, <1>5 DEF IInv, Types, TypeOK
    <2>2. /\ messages'[c] \in Seq(Message) /\ Len(messages'[c]) = j - 1
          /\ \A k \in 1 .. j - 1 : messages'[c][k] = ms[k]
      BY <1>1, <2>1, PrefixType
    <2>3. i \in 1 .. j - 1
      BY <2>2, LenProperties
    <2> QED BY <1>5, <2>2, <2>3
  <1> QED BY <1>3, <1>4, <1>5

\* The chunks and the end of a stream leave what was stopped alone.
LEMMA StreamedStays ==
  ASSUME IInv, NEW s \in Sends, Delta(s) \/ End(s),
         NEW c \in Convs, NEW i \in DOMAIN messages[c], messages[c][i].state = "stopped"
  PROVE  messages'[c][i] = messages[c][i]
  <1>1. ~(s \in Live /\ IsAnswer(messages[c][i], s))
    BY StoppedIsOver DEF IsAnswer
  <1>2. messages \in [Convs -> Seq(Message)]
    BY DEF IInv, Types, TypeOK
  <1>3. CASE messages' = messages
    BY <1>3
  <1>4. CASE \E d \in Convs : s \in Live /\ messages' = [messages EXCEPT ![d] = Grow(@, s)]
    BY <1>1, <1>2, <1>4 DEF Grow
  <1>5. CASE \E d \in Convs, state \in {"done", "failed"} :
                s \in Live /\ messages' = [messages EXCEPT ![d] = Replace(@, s, state, 1)]
    <2>1. PICK d \in Convs, state \in {"done", "failed"} :
             messages' = [messages EXCEPT ![d] = Replace(@, s, state, 1)]
      BY <1>5
    <2>2. messages'[c] \in {messages[c], Replace(messages[c], s, state, 1)}
      BY <1>2, <2>1
    <2>3. Replace(messages[c], s, state, 1)[i] = messages[c][i]
      BY <1>1, <1>5 DEF Replace
    <2> QED BY <2>2, <2>3
  <1>6. CASE Delta(s)
    <2>1. send[s].target.conv \in Convs
      BY <1>6 DEF Delta, Finds, IInv, Types, TypeOK
    <2> QED BY <1>4, <1>6, <2>1 DEF Delta
  <1>7. CASE End(s)
    <2>1. CASE Finds(send[s].target)
      <3>1. send[s].target.conv \in Convs
        BY <2>1 DEF Finds, IInv, Types, TypeOK
      <3> QED BY <1>3, <1>5, <1>7, <2>1, <3>1 DEF End, Live
    <2>2. CASE ~Finds(send[s].target)
      BY <1>3, <1>7, <2>2 DEF End
    <2> QED BY <2>1, <2>2
  <1> QED BY <1>6, <1>7

LEMMA NextStays ==
  ASSUME IInv, [Next]_vars, NEW c \in Convs, NEW i \in DOMAIN messages[c] \cap DOMAIN messages'[c],
         messages[c][i].state = "stopped", IsAnswer(messages'[c][i], messages[c][i].about)
  PROVE  messages'[c][i] = messages[c][i]
  <1> USE DEF ui
  <1>1. messages \in [Convs -> Seq(Message)] /\ i \in 1 .. Len(messages[c])
    BY StoppedIsOver DEF IInv, Types, TypeOK
  <1>2. CASE messages'[c] = messages[c]
    BY <1>2
  <1>3. ASSUME NEW cs, messages' = Only(cs)
        PROVE  messages'[c][i] = messages[c][i]
    <2>1. messages'[c] = IF c \in cs THEN messages[c] ELSE <<>>
      BY <1>3 DEF Only
    <2>2. c \in cs
      BY <2>1
    <2> QED BY <2>1, <2>2
  <1>4. CASE User
    <2>1. CASE \E s \in Sends : Ask(s) \/ EditAndAsk(s)
      BY <1>1, <2>1, AskedStays
    <2>2. CASE \E s \in Sends : Regenerate(s)
      BY <2>2, RegeneratedStays
    <2>3. CASE Edit
      BY <2>3, EditedStays
    <2>4. CASE Stop
      <3>1. messages'[c] \in {messages[c], MarkStopped(messages[c], controller)}
        BY <2>4 DEF Stop
      <3>2. MarkStopped(messages[c], controller)[i] = messages[c][i]
        BY DEF MarkStopped
      <3> QED BY <3>1, <3>2
    <2>5. CASE ConfirmDelete
      BY <1>3, <2>5 DEF ConfirmDelete
    <2>6. CASE \/ NewConversation \/ SubmitEmpty \/ CancelDelete \/ Rename \/ Refresh
               \/ \E d \in Convs : SelectConversation(d) \/ DeleteConversation(d)
      BY <2>6 DEF NewConversation, SubmitEmpty, CancelDelete, Rename, Refresh, SelectConversation,
                  DeleteConversation
    <2> QED BY <1>4, <2>1, <2>2, <2>3, <2>4, <2>5, <2>6 DEF User
  <1>5. CASE Answers
    <2>1. CASE ListAnswered
      BY <1>3, <2>1 DEF ListAnswered
    <2>2. CASE \E d \in Convs : GetAnswered(d)
      <3>1. messages'[c] = messages[c] \/ messages'[c] = server[c]
        BY <1>1, <2>2 DEF GetAnswered
      <3>2. CASE messages'[c] = server[c]
        <4>1. server[c] \in Seq(Message)
          BY DEF IInv, Types, TypeOK
        <4>2. i \in 1 .. Len(server[c])
          BY <3>2, <4>1, LenProperties
        <4>3. messages[c][i].about = 0
          BY <3>2, <4>2 DEF IsAnswer, IInv, ServerKept
        <4>4. messages[c][i].about \in Sends
          BY StoppedIsOver
        <4> QED BY <4>3, <4>4, Bounds
      <3> QED BY <1>2, <3>1, <3>2
    <2>3. CASE \/ RefusedAnswered \/ \E id \in Ids : DeleteAnswered(id)
               \/ \E d \in Convs : CreateAnswered(d)
               \/ \E d \in Convs, q \in 0 .. MaxSends : PostAnswered(d, q)
      BY <2>3 DEF RefusedAnswered, DeleteAnswered, CreateAnswered, PostAnswered
    <2> QED BY <1>5, <2>1, <2>2, <2>3 DEF Answers
  <1>6. CASE \E s \in Sends : Delta(s) \/ End(s)
    BY <1>6, StreamedStays
  <1>7. CASE UNCHANGED vars
    BY <1>7 DEF vars
  <1> QED BY <1>4, <1>5, <1>6, <1>7 DEF Next

\* What the user stopped stays as it was: no chunk that comes late and no
\* final answer changes it.
THEOREM StoppedUntouched == Spec => StoppedStays
  <1>1. IInv /\ [Next]_vars =>
          [\A c \in Convs : \A i \in DOMAIN messages[c] \cap DOMAIN messages'[c] :
             LET m == messages[c][i]
             IN  m.state = "stopped" /\ IsAnswer(messages'[c][i], m.about)
                   => messages'[c][i] = m]_vars
    BY NextStays
  <1> QED BY InitInv, NextInv, <1>1, PTL DEF Spec, StoppedStays
=============================================================================
