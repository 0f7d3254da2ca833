----------------------------- MODULE VarInterval -----------------------------
(***************************************************************************)
(* The interval variation hook and the integers it draws: with a given      *)
(* probability the announce interval of a response is lengthened by a       *)
(* number of seconds.  The generator's (unsigned) words are any words; how  *)
(* it derives the next one is left out.                                     *)
(***************************************************************************)
EXTENDS PreHooks

CONSTANTS
    Half,            \* 2^63 in the code: there are twice as many words and
                     \* ints, the least int is -Half
    ProbabilityRange,\* 1 << 24 in the code: the first number is below it
    Threshold,       \* ModifyResponseProbability, in units of 1 / that
    MaxIncreaseDelta,\* Config.MaxIncreaseDelta, in seconds
    ModifyMinInterval\* Config.ModifyMinInterval

ASSUME VarIntervalAssumption ==
    /\ Half \in Nat \ {0}
    /\ ProbabilityRange \in Nat \ {0}
    /\ Threshold \in 1..ProbabilityRange
    /\ MaxIncreaseDelta \in Nat \ {0}
    /\ ModifyMinInterval \in BOOLEAN

VARIABLE
    longer           \* by what the interval and the minimal interval of each
                     \* handler's response were lengthened, and the word
                     \* this came from

Word == 0..(2 * Half - 1)

IntervalOK == longer \in [Handler -> [by : Int, min : Int, word : Word]]

Unvaried == [by |-> 0, min |-> 0, word |-> 0]

IntervalInit == longer = [r \in Handler |-> Unvaried]

\* The conversion of a word to int.
Signed(v) == IF v < Half THEN v ELSE v - 2 * Half

\* Negation of an int: the least one is its own negative.
Negate(k) == IF k = -Half THEN k ELSE -k

\* Go's remainder has the sign of the dividend.
Remainder(k, n) == IF k >= 0 THEN k % n ELSE -((-k) % n)

\* Intn for the word v of the generator.
Intn(v, n) ==
    LET k == Signed(v)
    IN  Remainder(IF k < 0 THEN Negate(k) ELSE k, n)

\* The same number of seconds for both.
Varied(w) ==
    LET v == Intn(w, MaxIncreaseDelta) + 1
    IN  [by |-> v, min |-> IF ModifyMinInterval THEN v ELSE 0, word |-> w]

VaryInterval(r) ==
    /\ Calls(r, "interval variation")
    /\ \E v \in Word, w \in Word :
          longer' = [longer EXCEPT
             ![r] = IF Intn(v, ProbabilityRange) < Threshold
                    THEN Varied(w)
                    ELSE Unvaried]
    /\ Return(r)

-----------------------------------------------------------------------------

\* What the comment on Intn ("k >= 0 && k < n") and the documentation of the
\* hook say: seconds are added to the intervals of a response, none are taken
\* away, and at most MaxIncreaseDelta (random.Intn,
\* varinterval.HandleAnnounce).  The least integer, whose negative is negative
\* too, refutes it.
IntervalsLengthened ==
    \A r \in Handler : {longer[r].by, longer[r].min} \subseteq 0..MaxIncreaseDelta

\* What holds instead: only the least integer makes an interval shorter, by
\* less than MaxIncreaseDelta seconds.
IntervalVaried ==
    \A r \in Handler : \A d \in {longer[r].by, longer[r].min} :
       /\ d <= MaxIncreaseDelta
       /\ d < 0 => longer[r].word = Half /\ d >= 2 - MaxIncreaseDelta

=============================================================================
