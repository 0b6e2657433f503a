------------------------------ MODULE ChatStream ------------------------------
(***************************************************************************)
(* The response on its way to the client: as one JSON document, or         *)
(* replayed as server-sent events, which the client puts together again.   *)
(*                                                                         *)
(* A text is a sequence of bytes.  A byte is the i-th of the word, rune or *)
(* placeholder it belongs to.                                              *)
(***************************************************************************)
EXTENDS Integers, Sequences

CONSTANTS Byte,       \* [of, i]
          Rune,       \* the words that are one multi-byte rune
          Space,      \* the word that is one space
          ChunkSize   \* streamChunkSize, 48

ASSUME ChunkAssumption == ChunkSize \in Nat \ {0}

VARIABLES
  choices,  \* the response's choices: [content, tools]; tools: it has tool_calls
  rest,     \* what is left of the choice being replayed
  got,      \* the choices as the client has them
  sending   \* "no" | "role" | "content" | "sent"

streamVars == <<choices, rest, got, sending>>

Continuation(b) == b.of[1] \in Rune /\ b.i > 1
IsSpace(b) == b.of[1] = Space

StreamInit == choices = <<>> /\ rest = <<>> /\ got = <<>> /\ sending = "no"

\* Faulty: the window's end, whatever is there.
BackedUpNot(text) == ChunkSize

\* Where the window ends, backed up to the start of a rune.
BackedUp(text) ==
  LET starts == {k \in 1..ChunkSize : ~Continuation(text[k + 1])}
  IN  IF starts = {} THEN 0 ELSE CHOOSE k \in starts : \A j \in starts : j <= k

\* The length of the next piece: up to and with the last space but a first one,
\* else to the last whole rune, else the bytes as they are.
Cut(text) ==
  LET end == BackedUp(text)
      spaces == {k \in 2..end : IsSpace(text[k])}
  IN  IF spaces # {} THEN CHOOSE k \in spaces : \A j \in spaces : j <= k
      ELSE IF end = 0 THEN ChunkSize ELSE end

\* The last piece is what fits.
Piece(text) == IF Len(text) > ChunkSize THEN Cut(text) ELSE Len(text)

\* response.JSON: the choices as they are.
WriteJSON ==
  /\ sending = "no"
  /\ got' = choices /\ sending' = "sent"
  /\ UNCHANGED <<choices, rest>>

BeginSSE ==
  /\ sending = "no" /\ sending' = "role"
  /\ UNCHANGED <<choices, rest, got>>

\* The next choice's role, and its content is what is left to send.
EmitRole ==
  /\ sending = "role" /\ Len(got) < Len(choices)
  /\ got' = Append(got, [content |-> <<>>, tools |-> FALSE])
  /\ rest' = choices[Len(got) + 1].content
  /\ sending' = "content"
  /\ UNCHANGED choices

\* A content delta.
EmitPiece ==
  LET n == Piece(rest) IN
  /\ sending = "content" /\ rest # <<>>
  /\ got' = [got EXCEPT ![Len(got)] =
       [content |-> @.content \o SubSeq(rest, 1, n), tools |-> @.tools]]
  /\ rest' = SubSeq(rest, n + 1, Len(rest))
  /\ UNCHANGED <<choices, sending>>

\* finish_reason ends a choice, [DONE] the stream.
EmitFinish ==
  /\ sending = "content" /\ rest = <<>>
  /\ sending' = "role"
  /\ UNCHANGED <<choices, rest, got>>

EmitDone ==
  /\ sending = "role" /\ Len(got) = Len(choices)
  /\ sending' = "sent"
  /\ UNCHANGED <<choices, rest, got>>

WriteSSE == BeginSSE \/ EmitRole \/ EmitPiece \/ EmitFinish \/ EmitDone

-----------------------------------------------------------------------------
(* Properties. *)

Whole(text) == text = <<>> \/ ~Continuation(text[1])

\* UTF-8: a rune's bytes follow its first one, and are fewer than a chunk's.
Valid(text) ==
  /\ Whole(text)
  /\ \A k \in 2..Len(text) : Continuation(text[k]) => ~IsSpace(text[k - 1])
  /\ \A k \in 1..Len(text) - ChunkSize :
       \E j \in k + 1..k + ChunkSize : ~Continuation(text[j])

\* Any response, replayed.
ReplayInit ==
  /\ choices \in Seq([content : Seq(Byte), tools : BOOLEAN])
  /\ \A c \in 1..Len(choices) : Valid(choices[c].content)
  /\ rest = <<>> /\ got = <<>> /\ sending = "no"
ReplaySpec == ReplayInit /\ [][WriteJSON \/ WriteSSE]_streamVars

\* What the client has of a choice and what is left of it are always the choice's
\* text, cut where a rune begins; every piece has something of it; and at the end
\* nothing is left of any
\* (stream.go:88, "Concatenating the pieces always reproduces the input exactly").
StreamAddsUp ==
  /\ sending = "content" =>
       /\ choices[Len(got)].content = got[Len(got)].content \o rest
       /\ Whole(rest)
       /\ rest # <<>> => Piece(rest) \in 1..Len(rest)
  /\ \A c \in 1..Len(got) :
       c < Len(got) \/ sending \in {"role", "sent"} => got[c].content = choices[c].content
  /\ sending = "sent" => Len(got) = Len(choices)
=============================================================================
