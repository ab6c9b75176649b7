----------------------------- MODULE CopilotPage -----------------------------
(***************************************************************************)
(* The chat page: a question is appended to the conversation and sent with *)
(* what was said before it; the answer, or an apology in its place, is     *)
(* appended whenever it comes.                                             *)
(***************************************************************************)
EXTENDS Integers, Sequences, FiniteSets, PageRequests

CONSTANTS
  CopilotSlots,  \* bound: requests under way at once
  MaxQuestions   \* bound: questions asked in one conversation

Message  == [role : {"user", "assistant"}, about : 0..MaxQuestions]
Greeting == [role |-> "assistant", about |-> 0]
CopilotCall == [question : 1..MaxQuestions, history : Seq(Message)]

ASSUME CopilotAssumption == MaxQuestions \in Nat /\ None \notin CopilotCall

VARIABLES
  messages,        \* who says it, and which question it asks or answers
  thinking,        \* isLoading
  copilotCalls     \* [question, history]

copilotVars == <<messages, thinking, copilotCalls>>

\* The places of the questions in the conversation.
Questions == {i \in DOMAIN messages : messages[i].role = "user"}

CopilotInit ==
  /\ messages = <<Greeting>>
  /\ thinking = FALSE
  /\ copilotCalls = [s \in CopilotSlots |-> None]

\* Slip: pressing Enter submits whatever the button says.
MaySubmitAlways == TRUE

\* The button, and with it the form, is disabled while an answer is awaited;
\* the input is not.
MaySubmit == ~thinking

\* handleSubmit up to its await: the history sent is the one of the render in
\* which the user submitted.
AskCopilot ==
  LET n == Cardinality(Questions) + 1 IN
  /\ MaySubmit /\ n <= MaxQuestions /\ Free(copilotCalls) # {}
  /\ messages' = Append(messages, [role |-> "user", about |-> n])
  /\ thinking' = TRUE
  /\ copilotCalls' = Send(copilotCalls, [question |-> n, history |-> messages])

\* An answer, an error or a lost connection: each is said by the assistant.
CopilotReplies(s) ==
  /\ copilotCalls[s] # None
  /\ messages' = Append(messages, [role |-> "assistant", about |-> copilotCalls[s].question])
  /\ thinking' = FALSE
  /\ copilotCalls' = Answered(copilotCalls, s)

\* The page is left and mounted again: nobody waits for the answer any more.
RemountCopilot ==
  /\ messages' = <<Greeting>>
  /\ thinking' = FALSE
  /\ copilotCalls' = [s \in CopilotSlots |-> None]

CopilotNext == AskCopilot \/ (\E s \in CopilotSlots : CopilotReplies(s)) \/ RemountCopilot
CopilotSpec == CopilotInit /\ [][CopilotNext]_copilotVars

-----------------------------------------------------------------------------
\* Types of the conversation and its requests.
CopilotTypeOK ==
  /\ messages \in Seq(Message)
  /\ thinking \in BOOLEAN
  /\ copilotCalls \in [CopilotSlots -> CopilotCall \cup {None}]

\* Question and answer take turns, each answer following its own question, and
\* what the model is told was said before is a whole number of such turns: a
\* follow-up is never resolved against an answer to something else.
CopilotConversation ==
  /\ \A i \in DOMAIN messages :
       messages[i] = [role |-> IF i % 2 = 1 THEN "assistant" ELSE "user", about |-> i \div 2]
  /\ \A s \in Waiting(copilotCalls) :
       /\ Len(copilotCalls[s].history) = 2 * copilotCalls[s].question - 1
       /\ \A i \in DOMAIN copilotCalls[s].history : copilotCalls[s].history[i] = messages[i]
=============================================================================
