------------------------------ MODULE MCScript ------------------------------
EXTENDS Script

\* What a file may hold, and the functions of an earlier one.
If(x)  == <<"if", " ", x>>
End    == <<"end">>
Echo   == <<"echo", " ", "a">>
CallF  == <<"f", "(", "1", ")">>
DefF   == <<"function", "!", " ", "f", "(", "x", ")">>
Ret    == <<"return", " ", "1">>

MCFileLines ==
  {If("1"), If("0"), <<"elseif", " ", "1">>, <<"else">>, End, Echo, CallF, DefF, Ret,
   <<"echo", " ", "b", " ", "|", " ", "end">>,
   <<"echo", " ", "b", " ", "|", " ", "function", "!", " ", "f", "(", "x", ")">>,
   <<"if", " ", "f", "(", "1", ")">>,
   <<"source", " ", "F">>, <<"plugin", " ", "F", " ", "m">>,
   <<"m", ":", ":", "h", "(", "1", ")">>}

MCFiles == [f \in {"F"} |->
  <<<<"function", "!", " ", "h", "(", "x", ")">>, CallF, End>>]

Fn(lines) == {[own |-> "gbl", fn |-> [name |-> "f", argv |-> <<"x">>, lines |-> lines]]}
MCDefined ==
  {{}} \cup {Fn(ls) : ls \in {<<Echo>>, <<If("1"), Echo, End>>, <<Ret, Echo>>,
                              <<If("1"), Ret, Echo, End>>,
                              <<<<"m", ":", ":", "h", "(", "1", ")">>, Echo>>}}

MCUnits == {"echo", "a", " ", "(", ")", "[", "]", "|", "$", "!", ":", "<"}
MCAlphabet == <<"0", "1", "a", "b", "echo", "f", "x">>
MCNumbers == [w \in {"0", "1"} |-> IF w = "1" THEN 1 ELSE 0]
=============================================================================
