-------------------------- MODULE EscalationLadder --------------------------
(***************************************************************************)
(* What an inference request promises about the models it uses, without    *)
(* clock, telemetry or exceptions: it settles once on a ladder of models,  *)
(* asks them one at a time from the bottom, climbs only after an answer    *)
(* was dismissed, and gives the answer of the last model it asked or none. *)
(***************************************************************************)
EXTENDS Integers, Sequences

CONSTANTS
    Models,    \* model identifiers, positive numbers
    MaxRungs   \* how many models one request may ask

VARIABLES
    price,     \* the projected price of each model
    good,      \* the models that meet the caller's threshold
    ladder,    \* <<>> until it is settled
    asked,     \* the models asked so far
    waiting,   \* the last model asked has not been dismissed
    answer     \* 0 pending, -1 none, or the model whose answer is given

vars == <<price, good, ladder, asked, waiting, answer>>

\* One model, or several that all meet the threshold, no one twice, no one
\* below a cheaper one.
IsLadder(s) ==
    /\ s \in Seq(Models) /\ Len(s) \in 1 .. MaxRungs
    /\ \A i, j \in 1 .. Len(s) :
          i < j => s[i] # s[j] /\ price[s[i]] <= price[s[j]]
                   /\ {s[i], s[j]} \subseteq good

Init ==
    /\ ladder = <<>> \/ IsLadder(ladder)
    /\ asked = <<>> /\ waiting = FALSE /\ answer = 0

Settle ==
    /\ answer = 0 /\ ladder = <<>> /\ IsLadder(ladder')
    /\ UNCHANGED <<price, good, asked, waiting, answer>>

Ask ==
    /\ answer = 0 /\ ~waiting /\ Len(asked) < Len(ladder)
    /\ asked' = Append(asked, ladder[Len(asked) + 1]) /\ waiting' = TRUE
    /\ UNCHANGED <<price, good, ladder, answer>>

\* Only when there is another rung to climb to.
Dismiss ==
    /\ answer = 0 /\ waiting /\ Len(asked) < Len(ladder)
    /\ waiting' = FALSE
    /\ UNCHANGED <<price, good, ladder, asked, answer>>

Give ==
    /\ answer = 0 /\ waiting
    /\ answer' = asked[Len(asked)]
    /\ UNCHANGED <<price, good, ladder, asked, waiting>>

GiveNone ==
    /\ answer = 0 /\ answer' = -1
    /\ UNCHANGED <<price, good, ladder, asked, waiting>>

Next == Settle \/ Ask \/ Dismiss \/ Give \/ GiveNone

Spec == Init /\ [][Next]_vars
=============================================================================
