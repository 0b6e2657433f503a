------------------------------ MODULE MCTextPath ------------------------------
(* TextPath on a small instance. *)
EXTENDS TextPath

MCLength == [w \in Word |-> CASE w = "ana" -> 3 [] w = "e'" -> 2 [] OTHER -> 1]

Str(ws) == [form |-> "string", words |-> ws]
Parts(ps) == [form |-> "parts", parts |-> ps]

\* Two names in a row, a name after runes and a space, in two messages and in parts
\* around an image.
MCPrompt ==
  {<<Str(<<"ana", "bo", "ana">>)>>,
   <<Str(<<"e'", "e'", " ", "ana">>), Str(<<"ana">>)>>,
   <<Parts(<< <<"ana">>, <<>>, <<"e'">> >>), Str(<<>>)>>}
MCByte == [of : (Word \cup Entity) \X Nat, i : Nat]
MCChain == <<"fail_open", "fail_closed">>
=============================================================================
