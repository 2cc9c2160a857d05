------------------------------ MODULE RandomDraw ------------------------------
(***************************************************************************)
(* What the entropy domain promises: each subject is drawn at most once.   *)
(* Its inputs are committed before the oracle answers; the first answer is *)
(* the only one; from the answer on the draw can end in no other way than  *)
(* with the outcome these commitments and that answer determine; a draw    *)
(* given up without an answer stays void for ever.                         *)
(***************************************************************************)
CONSTANTS Subject, Commitment, Answer, NoCommitment, NoAnswer

VARIABLES phase, commitment, answer
drawVars == <<phase, commitment, answer>>

DrawInit ==
    /\ phase = [s \in Subject |-> "none"]
    /\ commitment = [s \in Subject |-> NoCommitment]
    /\ answer = [s \in Subject |-> NoAnswer]

Register(s) ==
    /\ phase[s] = "none"
    /\ phase' = [phase EXCEPT ![s] = "registered"]
    /\ UNCHANGED <<commitment, answer>>

\* Any commitment may be chosen, for s alone.
Commit(s) ==
    /\ phase[s] = "registered"
    /\ phase' = [phase EXCEPT ![s] = "committed"]
    /\ commitment'[s] \in Commitment
    /\ commitment' = [commitment EXCEPT ![s] = commitment'[s]]
    /\ UNCHANGED answer

\* The oracle answers: held for later, or revealed at once.
Draw(s) ==
    /\ phase[s] = "committed"
    /\ phase'[s] \in {"answered", "final"}
    /\ phase' = [phase EXCEPT ![s] = phase'[s]]
    /\ answer'[s] \in Answer
    /\ answer' = [answer EXCEPT ![s] = answer'[s]]
    /\ UNCHANGED commitment

Reveal(s) ==
    /\ phase[s] = "answered"
    /\ phase' = [phase EXCEPT ![s] = "final"]
    /\ UNCHANGED <<commitment, answer>>

GiveUp(s) ==
    /\ phase[s] = "committed"
    /\ phase' = [phase EXCEPT ![s] = "void"]
    /\ UNCHANGED <<commitment, answer>>

DrawNext ==
    \E s \in Subject : Register(s) \/ Commit(s) \/ Draw(s) \/ Reveal(s) \/ GiveUp(s)

DrawSpec == DrawInit /\ [][DrawNext]_drawVars
===============================================================================
