------------------------------ MODULE MCPrompt ------------------------------
EXTENDS Prompt

One(flag, gen) == [flag |-> flag, gen |-> gen]
\* cd, edit, buffer and "!".
MCContexts ==
  Root :> <<One("", "cmd")>> @@ <<"c">> :> <<One("", "path")>>
    @@ <<"b">> :> <<One("-", "win"), One("", "plug")>> @@ Bang :> <<One("*", "")>>
MCLists == [cmd |-> <<<<"b">>, <<"c">>, <<"q">>>>, win |-> <<<<"x">>>>, plug |-> <<<<"c">>>>]
MCNames == Pwd :> <<<<"x">>, <<"y">>, <<"c">>>> @@ <<"x">> :> <<<<"x">>, <<"b">>, <<"q">>>>
             @@ <<"/">> :> <<>>
MCHintKeys == <<"x", "c">>
MCChars == {"c", "x", " ", "/", "|", "!"}
MCKeys == {"Tab", "STab", "BS", "Left", "Right", "LineEnd", "LineHome", "Word", "WordBack",
           "KillWord", "KillLine", "Invert", "Hints", "Down", "Up"}
MCLoaded == {<<>>, <<<<"c", " ">>, <<"c">>>>}
=============================================================================
