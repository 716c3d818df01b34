-------------------------------- MODULE Text --------------------------------
(***************************************************************************)
(* The texts of commands, and what the server makes of them: the tests of  *)
(* System, and stod, stoi and the words they are compared with.            *)
(*                                                                         *)
(* A text is a sequence of symbols.  A symbol is a character or, as no     *)
(* letter is ever looked at alone, a run of letters.                       *)
(***************************************************************************)
EXTENDS Integers, Sequences, Functions, FiniteSetsExt

CONSTANTS
    Values     \* the texts clients send as values

ASSUME ValuesAssumption == Values \subseteq Seq(STRING)

Blank   == " "
Dot     == "."
Signs   == {"+", "-"}
Numerals == <<"0", "1", "2", "3", "4", "5", "6", "7", "8", "9">>
Digits  == {Numerals[n] : n \in DOMAIN Numerals}

\* Numbers are counted in ten-thousandths.
Unit == 10000

-----------------------------------------------------------------------------
(* The library: what strtod and strtol accept.  Texts have no exponent and  *)
(* no number too large.  Of a fraction four digits count: the code keeps a  *)
(* double, of which std::to_string shows six decimals, the last rounded.    *)

\* A sign or none, digits with a dot or without, and one digit at least.
IsDecimal(s) ==
    \E first \in 1..2, dot \in 1..(Len(s) + 1) :
        /\ first = 2 => s # <<>> /\ s[1] \in Signs
        /\ first <= dot
        /\ dot <= Len(s) => s[dot] = Dot
        /\ \A i \in first..Len(s) : i # dot => s[i] \in Digits
        /\ \E i \in first..Len(s) : i # dot

IsInteger(s) == IsDecimal(s) /\ \A i \in DOMAIN s : s[i] # Dot

DigitValue(digit) == CHOOSE n \in 0..9 : Numerals[n + 1] = digit

DotAt(s) == CHOOSE dot \in 1..(Len(s) + 1) :
               /\ dot <= Len(s) => s[dot] = Dot
               /\ \A i \in 1..(dot - 1) : s[i] # Dot

\* What the i-th symbol contributes to a number of which one is scale.
Contribution(s, i, scale) ==
    LET dot == DotAt(s)
    IN  IF s[i] \notin Digits THEN 0
        ELSE DigitValue(s[i]) * IF i < dot THEN scale * 10^(dot - 1 - i)
                                           ELSE scale \div 10^(i - dot)

NumberIn(s, scale) ==
    LET size == SumFunctionOnSet([i \in DOMAIN s |-> Contribution(s, i, scale)],
                                 DOMAIN s)
    IN  IF s # <<>> /\ s[1] = "-" THEN -size ELSE size

\* How many symbols are read: the longest beginning that is a number.  stod
\* throws when there is none, and so does stoi, which skips blanks first.
DecimalLength ==
    [s \in Values |-> Max({0} \cup {n \in 1..Len(s) : IsDecimal(SubSeq(s, 1, n))})]

stod == [s \in Values |-> NumberIn(SubSeq(s, 1, DecimalLength[s]), Unit)]

AfterBlanks(s) ==
    LET first == CHOOSE n \in 1..(Len(s) + 1) :
                    /\ \A i \in 1..(n - 1) : s[i] = Blank
                    /\ n <= Len(s) => s[n] # Blank
    IN  SubSeq(s, first, Len(s))

IntegerLength ==
    [s \in Values |-> LET t == AfterBlanks(s)
                     IN  Max({0} \cup {n \in 1..Len(t) : IsInteger(SubSeq(t, 1, n))})]

stoi == [s \in Values |->
           NumberIn(SubSeq(AfterBlanks(s), 1, IntegerLength[s]), 1)]

-----------------------------------------------------------------------------
(* The server *)

\* Mutant: && !hasDecimal is missing.
isValidNumber_ManyDots(s) ==
    /\ \A i \in DOMAIN s : \/ i = 1 /\ s[i] \in Signs
                           \/ s[i] = Dot
                           \/ s[i] \in Digits
    /\ \E i \in DOMAIN s : s[i] \in Digits

\* One pass over the text, with the flags hasDecimal and hasDigit.
isValidNumber(s) ==
    /\ \A i \in DOMAIN s : \/ i = 1 /\ s[i] \in Signs
                           \/ s[i] = Dot /\ \A j \in 1..(i - 1) : s[j] # Dot
                           \/ s[i] \in Digits
    /\ \E i \in DOMAIN s : s[i] \in Digits

isValidBoolean(s) == s \in {<<"true">>, <<"false">>, <<"1">>, <<"0">>}
Truth(s) == s \in {<<"true">>, <<"1">>}

\* What MONITOR takes for a boolean.
On  == {<<"on">>, <<"true">>, <<"1">>}
Off == {<<"off">>, <<"false">>, <<"0">>}

\* if (!value.empty() && value[0] == ' ') value = value.substr(1)
StripBlank(s) == IF s # <<>> /\ s[1] = Blank THEN SubSeq(s, 2, Len(s)) ELSE s

=============================================================================
