---------------------------- MODULE EmbedService ----------------------------
(***************************************************************************)
(* What EmbeddingModel.embed() promises its callers, whatever caches stand *)
(* between the call and the model: a thread asks for the vectors of a list *)
(* of texts under one model and gets, in the same order, the vector of     *)
(* each text, or an EmbeddingError and no rows at all.  The service keeps  *)
(* no state from one call to the next, so nothing an earlier call, another *)
(* thread, another process or a crash did can show in an answer.           *)
(*                                                                         *)
(* A vector is abstracted to what it is the embedding of: the pair of the  *)
(* model (its id and pinned revision) and the text.                        *)
(***************************************************************************)
EXTENDS Sequences

CONSTANTS
  Threads,    \* callers of embed(), in any process
  Models,     \* registered (model id, revision) pairs
  Requests    \* the lists of texts callers pass

VARIABLES
  status,     \* status[t]: where t's call stands
  ask,        \* ask[t]: the model and texts of t's call
  answer      \* answer[t]: the rows embed() returns to t

vars == <<status, ask, answer>>

\* No call in progress.
NoAsk == [model |-> "none", texts |-> <<>>]

\* The rows an answer to the request r must hold, in the order of its texts.
Answer(r) == [n \in DOMAIN r.texts |-> <<r.model, r.texts[n]>>]

Init ==
  /\ status = [t \in Threads |-> "idle"]
  /\ ask = [t \in Threads |-> NoAsk]
  /\ answer = [t \in Threads |-> <<>>]

\* t calls embed(texts) on a loaded model.
Ask(t) ==
  /\ status[t] = "idle"
  /\ \E m \in Models, ts \in Requests :
       ask' = [ask EXCEPT ![t] = [model |-> m, texts |-> ts]]
  /\ status' = [status EXCEPT ![t] = "busy"]
  /\ UNCHANGED answer

\* An empty list is answered in the call itself.
AskNothing(t) ==
  /\ status[t] = "idle"
  /\ <<>> \in Requests
  /\ \E m \in Models : ask' = [ask EXCEPT ![t] = [model |-> m, texts |-> <<>>]]
  /\ status' = [status EXCEPT ![t] = "ok"]
  /\ answer' = [answer EXCEPT ![t] = <<>>]

\* The call returns its array.
Reply(t) ==
  /\ status[t] = "busy"
  /\ status' = [status EXCEPT ![t] = "ok"]
  /\ answer' = [answer EXCEPT ![t] = Answer(ask[t])]
  /\ UNCHANGED ask

\* The call raises EmbeddingError.
Refuse(t) ==
  /\ status[t] = "busy"
  /\ status' = [status EXCEPT ![t] = "error"]
  /\ UNCHANGED <<ask, answer>>

\* Some callers stop waiting: one takes its answer, or a process dies and
\* takes its threads' calls with it.
Forget ==
  \E gone \in SUBSET Threads :
    /\ status' = [t \in Threads |-> IF t \in gone THEN "idle" ELSE status[t]]
    /\ ask' = [t \in Threads |-> IF t \in gone THEN NoAsk ELSE ask[t]]
    /\ answer' = [t \in Threads |-> IF t \in gone THEN <<>> ELSE answer[t]]

Next ==
  \/ \E t \in Threads : Ask(t) \/ AskNothing(t) \/ Reply(t) \/ Refuse(t)
  \/ Forget

Spec == Init /\ [][Next]_vars

=============================================================================
