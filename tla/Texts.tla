-------------------------------- MODULE Texts ---------------------------------
(***************************************************************************)
(* Texts, and what the code does with them through the standard library: a *)
(* text is a sequence, and a word, a digit or a mark is one element of it. *)
(***************************************************************************)
EXTENDS Integers, Sequences, SequencesExt

Digit == [d \in {"0", "1", "2", "3", "4", "5", "6", "7", "8", "9"} |->
            CHOOSE n \in 0..9 : ToString(n) = d]

Unsigned(text) == IF text # <<>> /\ text[1] = "-" THEN Tail(text) ELSE text

IsNumber(text) ==
    /\ Unsigned(text) # <<>>
    /\ \A i \in DOMAIN Unsigned(text) : Unsigned(text)[i] \in DOMAIN Digit

Atoi(text) ==
    LET abs == FoldLeft(LAMBDA n, d : 10 * n + Digit[d], 0, Unsigned(text))
    IN  IF Unsigned(text) = text THEN abs ELSE -abs

Itoa(n) ==
    LET abs == IF n < 0 THEN -n ELSE n
        len == CHOOSE k \in 1..9 : abs < 10 ^ k /\ (k > 1 => abs >= 10 ^ (k - 1))
    IN  (IF n < 0 THEN <<"-">> ELSE <<>>)
            \o [i \in 1..len |-> ToString((abs \div 10 ^ (len - i)) % 10)]

Split(text, mark) ==
    FoldLeft(LAMBDA parts, c : IF c = mark THEN Append(parts, <<>>)
                               ELSE [parts EXCEPT ![Len(parts)] = Append(@, c)],
             << <<>> >>, text)

Joined(texts, mark) ==
    FlattenSeq([i \in DOMAIN texts |-> IF i = 1 THEN texts[1] ELSE <<mark>> \o texts[i]])

(* What a Go value that is not there is printed as. *)
NilText == <<"<nil>">>

StartsWith(text, mark) == text # <<>> /\ text[1] = mark

Replaced(text, old, new) ==
    FlattenSeq([i \in DOMAIN text |-> IF text[i] = old THEN new ELSE <<text[i]>>])

Trimmed(text, marks) ==
    LET kept == {i \in DOMAIN text : text[i] \notin marks}
    IN  IF kept = {} THEN <<>> ELSE SubSeq(text, Min(kept), Max(kept))
===============================================================================
