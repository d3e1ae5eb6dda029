--------------------------- MODULE MCSessionClient ---------------------------
(***************************************************************************)
(* SessionClient for TLC.  The program never runs out of fresh tokens and  *)
(* sessions; were they used up in the model, a liveness property would     *)
(* speak only of the first few.  So identities are used again: a token to  *)
(* which neither the jar nor a request nor an answer refers is never       *)
(* presented again, and as good as one that was never drawn.               *)
(***************************************************************************)
EXTENDS SessionClient

\* What a request or an answer under way, the jar or the page refers to.
TokensInUse ==
  {jar} \cup {job[p].tok : p \in Proc}
    \cup {answer[p].tok : p \in {q \in Proc : answer[q] # None}}

\* While the browser is calm, CalmSessions and JarHoldsTheSession ask about usable
\* tokens wherever they are: those are kept.
DeadTokens == {t \in minted \ TokensInUse : calm => ~Usable(rows, t)}

ChainsInUse ==
  {rows[t].chain : t \in {u \in Token \ DeadTokens : rows[u] # None}}
    \cup {job[p].chain : p \in Proc}
    \cup {answer[p].acc[2] : p \in {q \in Proc : answer[q] # None /\ answer[q].acc # None}}
    \cup (IF page = None THEN {} ELSE {page[2]})

DeadChains == {c \in Chain \ ChainsInUse : owner[c] # None}

\* No property of the run asks any more what these answers promised.
DeadAnswers == {a \in told : ~calm \/ a[1] = "logged_out" \/ a[2] \in DeadChains}

SomeDead == DeadTokens # {} \/ DeadChains # {} \/ DeadAnswers # {}

\* Bound: what nobody can name any more is there to be drawn again.
Forget ==
  /\ SomeDead
  /\ rows' = [t \in Token |-> IF t \in DeadTokens THEN None ELSE rows[t]]
  /\ minted' = minted \ DeadTokens
  /\ held' = held \ DeadTokens
  /\ parent' = [t \in Token |-> IF {t, parent[t]} \cap DeadTokens # {} THEN None ELSE parent[t]]
  /\ owner' = [c \in Chain |-> IF c \in DeadChains THEN None ELSE owner[c]]
  /\ access' = {a \in access : a[2] \notin DeadChains}
  /\ told' = told \ DeadAnswers
  /\ UNCHANGED <<users, pc, job, browser>>

MCNext == ClientNext \/ Forget

MCSpec == ClientInit /\ [][MCNext]_clientVars /\ Fairness /\ WF_clientVars(Forget)

\* Identities are forgotten at once ...
ForgetFirst == SomeDead => Forget

\* ... and fresh ones are interchangeable: the least is drawn.
TakesLeast(S, before, after) ==
  \A x \in after \ before : \A y \in S : y < x => y \in before

Opened == {c \in Chain : owner[c] # None}

DrawLeast == TakesLeast(Token, minted, minted') /\ TakesLeast(Chain, Opened, Opened')
=============================================================================
