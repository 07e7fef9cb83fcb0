------------------------------ MODULE MCPrograms ------------------------------
(***************************************************************************)
(* Texts, words, bytes and names for the run of module Programs.           *)
(***************************************************************************)
EXTENDS Programs, TLC

CONSTANTS g1, g2, byte1, byte2, byte3

LibraryText == <<"a", "b", "c">>
CommandsText == <<"a", "a", "b", "c">>
SomeLibraryWords == {<<"a", "c">>, <<"c", "a">>}
SomeSearchWords == {<<"a", "b">>, <<"a", "a", "b">>, <<"a", "c">>, <<"b", "c">>, <<>>}

\* The integer 256 and the text 225.1; the integer 512 is the same text as 256, and
\* 225.2 has the same first four bytes as 225.1.
SomeMapKeys == {<<0, 1, 0, 0>>, <<50, 50, 53, 46, 49, 0>>}
SomeLookupKeys == SomeMapKeys \cup {<<0, 2, 0, 0>>, <<50, 50, 53, 46, 50, 0>>}

\* H, T; S, W; and what is typed: H, t, s, R.
SomeCommandWords == {<<104>>, <<84>>}
SomeGroupWords == (g1 :> <<83>>) @@ (g2 :> <<87>>)
SomeTypedWords == {<<72>>, <<116>>, <<115>>, <<82>>}
SomeTypedNumbers == {-1, 3, 4, 5, 6, 7}

\* Files on the card, of at most two bytes.  What may fail without a trace in the
\* status is kept apart.
SomeBuffers == {<<>>, <<byte1, byte2>>}
SomeTestBuffer == <<byte2, byte3>>
OtherFaults == {"mount", "open", "close", "format", "reset"}
SomeFaultSets == {{}, OtherFaults, OtherFaults \cup {"seek", "short"}}

=============================================================================
