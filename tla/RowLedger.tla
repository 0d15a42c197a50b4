------------------------------ MODULE RowLedger -----------------------------
(***************************************************************************)
(* What the pipeline promises about one row, with no process, queue, clock *)
(* or budget in sight: a row is admitted once, taken by one holder at a    *)
(* time, and given back, parked for another pass, or settled with an       *)
(* answer.  A settled row is final: no restart takes it again and no later *)
(* step gives it another answer, except that a match may be withdrawn.     *)
(* WorkerPool implements this through the mapping at the end of            *)
(* WorkerPoolRefinement.tla.                                               *)
(***************************************************************************)
CONSTANTS
    Rows,
    Answer,     \* what a settled row may carry, Withdrawn among it
    NoAnswer,   \* what every other row carries: not an Answer
    Withdrawn   \* the answer that replaces a match taken back

VARIABLES
    place,   \* where each row is: "outside", "open", "held", "parked",
             \* "settled" or "excluded"
    answer   \* the answer a settled row carries

LedgerInit ==
    /\ place = [r \in Rows |-> "outside"]
    /\ answer = [r \in Rows |-> NoAnswer]

(* The rows of S go from one place to another, all at once.                *)
Move(S, from, to) ==
    /\ \A r \in S : place[r] = from
    /\ place' = [r \in Rows |-> IF r \in S THEN to ELSE place[r]]
    /\ UNCHANGED answer

Admit(S, T) ==
    /\ S \cap T = {}
    /\ \A r \in S \cup T : place[r] = "outside"
    /\ place' = [r \in Rows |-> IF r \in S THEN "open"
                                ELSE IF r \in T THEN "excluded" ELSE place[r]]
    /\ UNCHANGED answer

Take(S) == Move(S, "open", "held")
GiveBack(S) == Move(S, "held", "open")
Park(r) == Move({r}, "held", "parked")
Unpark(S) == Move(S, "parked", "open")

Settle(r, a) ==
    /\ place[r] = "held"
    /\ place' = [place EXCEPT ![r] = "settled"]
    /\ answer' = [answer EXCEPT ![r] = a]

Withdraw(S) ==
    /\ \A r \in S : place[r] = "settled"
    /\ answer' = [r \in Rows |-> IF r \in S THEN Withdrawn ELSE answer[r]]
    /\ UNCHANGED place

LedgerAt(p) == {r \in Rows : place[r] = p}

LedgerNext ==
    \/ \E S \in SUBSET LedgerAt("outside") : \E T \in SUBSET (LedgerAt("outside") \ S) : Admit(S, T)
    \/ \E S \in SUBSET LedgerAt("open") : Take(S)
    \/ \E S \in SUBSET LedgerAt("held") : GiveBack(S)
    \/ \E S \in SUBSET LedgerAt("parked") : Unpark(S)
    \/ \E S \in SUBSET LedgerAt("settled") : Withdraw(S)
    \/ \E r \in LedgerAt("held") : Park(r) \/ \E a \in Answer : Settle(r, a)

LedgerSpec == LedgerInit /\ [][LedgerNext]_<<place, answer>>
=============================================================================
