----------------------------- MODULE AtomicCalls -----------------------------
(***************************************************************************)
(* What Repositories.WithTx promises its caller: the statements of one     *)
(* call take effect together or not at all, and the answer says which,     *)
(* except for an error of the commit itself.                               *)
(***************************************************************************)
CONSTANTS Call, None

VARIABLES
  kept,   \* the calls whose statements are in the database
  answer  \* call -> how WithTx ended, or None

Answer == {"nil", "error", "commit_error", "panic", "exit"}

Init == kept = {} /\ answer = [c \in Call |-> None]

TakeEffect(c) ==
  /\ answer[c] = None
  /\ kept' = kept \cup {c}
  /\ UNCHANGED answer

Return(c, a) ==
  /\ answer[c] = None
  /\ a = "nil" => c \in kept
  /\ a \in {"error", "panic", "exit"} => c \notin kept
  /\ answer' = [answer EXCEPT ![c] = a]
  /\ UNCHANGED kept

Next == \E c \in Call : TakeEffect(c) \/ \E a \in Answer : Return(c, a)

Spec == Init /\ [][Next]_<<kept, answer>>
=============================================================================
