--------------------------- MODULE AnswerLifecycle ---------------------------
(***************************************************************************)
(* What the copilot page promises of the answer to a question, seen by a   *)
(* user who only looks at the conversations                                *)
(* (src/frontend/src/app/dashboard/ai-copilot/page.tsx): it is shown as    *)
(* pending from the moment the question is asked, it is decided at most    *)
(* once, and one that was removed never comes back.                        *)
(***************************************************************************)
CONSTANT Questions

\* How the page shows the answer to each question: "none" until it is asked,
\* then "pending" or decided, and "gone" once no conversation has it any more.
VARIABLE shown

Decisions == {"stopped", "done", "failed"}

OnThePage == {q \in Questions : shown[q] \in {"pending"} \cup Decisions}

Init == shown = [q \in Questions |-> "none"]

\* A conversation is deleted or replaced, or its end is cut off.
Without(Q) == [q \in Questions |-> IF q \in Q THEN "gone" ELSE shown[q]]

Remove == \E Q \in SUBSET OnThePage : shown' = Without(Q)

\* An answer that is generated again takes the place of others.
Ask(s) ==
  /\ shown[s] = "none"
  /\ \E Q \in SUBSET OnThePage : shown' = [Without(Q) EXCEPT ![s] = "pending"]

\* The conversation asked in left the list: the answer is shown nowhere.
AskUnseen(s) ==
  /\ shown[s] = "none"
  /\ shown' = [shown EXCEPT ![s] = "gone"]

Decide(s) ==
  /\ shown[s] = "pending"
  /\ \E decision \in Decisions : shown' = [shown EXCEPT ![s] = decision]

Next == Remove \/ \E s \in Questions : Ask(s) \/ AskUnseen(s) \/ Decide(s)

Spec == Init /\ [][Next]_shown
=============================================================================
