------------------------------- MODULE TextPath -------------------------------
(***************************************************************************)
(* A request's texts through reversible anonymization: the messages are    *)
(* decoded, what the analyzer finds in them is replaced by placeholders,   *)
(* the provider answers with placeholders of its own choice, and the       *)
(* originals are put back before the response is sent.                     *)
(***************************************************************************)
EXTENDS ChatStream, SequencesExt

CONSTANTS Word, Length,   \* the words of messages, and their bytes
          Newline,        \* the word that is one newline
          Entity,         \* entity types
          PlaceholderLen, \* bytes of a placeholder
          Prompt,         \* the messages arrays clients send: sequences of contents
          Chain,          \* on_error of each reversible anonymizer of the chain
          MaxSpans,       \* bound: detections in a message
          MaxTokens,      \* bound: words and placeholders of an answer
          MaxChoices      \* bound: choices of a response

ASSUME WordAssumption ==
  /\ Rune \cup {Space, Newline} \subseteq Word /\ Word \cap Entity = {}
  /\ Length \in [Word -> Nat \ {0}] /\ PlaceholderLen \in Nat \ {0}
ASSUME ChainAssumption == Chain \in Seq({"fail_open", "fail_closed"})
ASSUME BoundAssumption == {MaxTokens, MaxChoices} \subseteq Nat
\* A request has a message (handler.go:74).
ASSUME PromptAssumption ==
  Prompt \subseteq Seq([form : {"string"}, words : Seq(Word)] \cup
                       [form : {"parts"}, parts : Seq(Seq(Word))]) \ {<<>>}

VARIABLES
  at,        \* "analyze" | "replace" | "llm" | "restore" | "reply" | "failed"
  msgs,      \* ChatRequest.Messages: content, and what it was decoded from
  t,         \* the anonymizer at work: its position, its copy, the message it is at,
             \* the detections left; as a history the traces of its copy and of msgs
  mappings, counters,  \* transform.State
  history    \* contents the client sent; the traces of what was sent; whether
             \* detections overlapped; what the provider read; what it meant

vars == <<streamVars, at, msgs, t, mappings, counters, history>>

WordText(w) == [i \in 1..Length[w] |-> [of |-> <<w, 0>>, i |-> i]]
Flat(words) == FlattenSeq([i \in 1..Len(words) |-> WordText(words[i])])
\* <PERSON_1>
Placeholder(p) == [i \in 1..PlaceholderLen |-> [of |-> p, i |-> i]]
IsPlaceholder(b) == b.of[1] \in Entity

\* extractContentText: the text parts, joined by newlines; <<>> is an image.
Extracted(parts) ==
  LET Joins(i) == parts[i] # <<>> /\ \E j \in 1..i - 1 : parts[j] # <<>>
  IN  FlattenSeq([i \in 1..Len(parts) |->
                    (IF Joins(i) THEN WordText(Newline) ELSE <<>>) \o Flat(parts[i])])

\* Message.UnmarshalJSON: a string, or parts whose raw form is kept.
Decoded(c) ==
  IF c.form = "string" THEN [content |-> Flat(c.words), raw |-> <<>>, read |-> <<>>]
  ELSE [content |-> Extracted(c.parts), raw |-> c.parts, read |-> Extracted(c.parts)]

\* Message.MarshalJSON, as its reader understands it: the raw form unless the text
\* was rewritten.
Marshalled(m) == IF m.raw # <<>> /\ m.content = m.read THEN Extracted(m.raw) ELSE m.content

\* The trace of a text: the place in the client's message of each byte, 0 for one of a
\* placeholder; what was detected of that message; what was detected apart.
Traced(text) == [from |-> [k \in 1..Len(text) |-> k], found |-> {}, apart |-> {}]

NoWork == [pos |-> 0, out |-> <<>>, m |-> 1, spans |-> {}, traced |-> <<>>, before |-> <<>>]
Contents(ms) == [i \in DOMAIN ms |-> ms[i].content]
\* A transformer begins with the request's messages.
Started(pos, traced) ==
  [NoWork EXCEPT !.pos = pos, !.out = Contents(msgs), !.traced = traced, !.before = traced]

Init ==
  /\ StreamInit
  /\ \E p \in Prompt : msgs = [i \in 1..Len(p) |-> Decoded(p[i])]
  /\ at = "analyze"
  /\ t = Started(1, [i \in DOMAIN msgs |-> Traced(msgs[i].content)])
  /\ mappings = <<>> /\ counters = [e \in Entity |-> 0]
  /\ history = [asked |-> Contents(msgs), traced |-> <<>>, clean |-> TRUE,
                sent |-> <<>>, meant |-> <<>>]

-----------------------------------------------------------------------------
\* The analyzer finds runs of whole words; offsets are Go's, from 0.
Starts(text) == {k \in 1..Len(text) : text[k].i = 1}
Ends(text) == {k - 1 : k \in Starts(text) \ {1}} \cup {Len(text)}
SpanSet(text) ==
  {s \in [type : Entity, start : {k - 1 : k \in Starts(text)}, end : Ends(text)] :
     s.start < s.end /\ \A k \in s.start + 1..s.end : ~IsPlaceholder(text[k])}
Overlap(s, r) == s # r /\ s.start < r.end /\ r.start < s.end

\* The detections that none of those replaced before them overlaps.
Apart(spans) == {s \in spans : \A r \in spans : r.start >= s.start => ~Overlap(s, r)}
Places(from, spans) == UNION {{from[k] : k \in s.start + 1..s.end} : s \in spans}
Detected(trace, spans) ==
  [trace EXCEPT !.found = @ \cup Places(trace.from, spans),
                !.apart = @ \cup Places(trace.from, Apart(spans))]

\* The copy becomes the request's messages and the next transformer has it.
Committed(w) ==
  /\ msgs' = [i \in DOMAIN msgs |-> [msgs[i] EXCEPT !.content = w.out[i]]]
  /\ t' = [NoWork EXCEPT !.pos = w.pos + 1, !.out = w.out,
                       !.traced = w.traced, !.before = w.traced]
  /\ at' = "analyze"

\* On to the next message, or the next transformer.
Proceed(w) ==
  IF w.m < Len(msgs) THEN t' = [w EXCEPT !.m = @ + 1] /\ at' = "analyze" /\ UNCHANGED msgs
                     ELSE Committed(w)

\* analyze: some spans of the message; an empty one is not looked at.
Analyze ==
  /\ at = "analyze" /\ t.pos <= Len(Chain)
  /\ \E spans \in {s \in SUBSET SpanSet(t.out[t.m]) : Cardinality(s) <= MaxSpans} :
       LET w == [t EXCEPT !.spans = spans, !.traced[t.m] = Detected(@, spans)] IN
       /\ IF spans = {} THEN Proceed(w)
          ELSE t' = w /\ at' = "replace" /\ UNCHANGED msgs
       /\ history' = [history EXCEPT !.clean = @ /\ \A s, r \in spans : ~Overlap(s, r)]
  /\ UNCHANGED <<streamVars, mappings, counters>>

\* The analyzer cannot be asked: the request fails or the transformer is skipped.
AnalyzeFails ==
  /\ at = "analyze" /\ t.pos <= Len(Chain) /\ t.out[t.m] # <<>>
  /\ IF Chain[t.pos] = "fail_closed" THEN at' = "failed" /\ UNCHANGED t
     ELSE t' = Started(t.pos + 1, t.before) /\ at' = "analyze"
  /\ UNCHANGED <<streamVars, msgs, mappings, counters, history>>

\* AllocatePlaceholder: the original's own, or the type's next one.
Allocated(e, original) ==
  IF \E p \in DOMAIN mappings : mappings[p] = original
  THEN CHOOSE p \in DOMAIN mappings : mappings[p] = original
  ELSE <<e, counters[e] + 1>>

\* Faulty: front to back.
NextSpans == {s \in t.spans : \A r \in t.spans : s.start <= r.start}

\* The order of replacement; sort.Slice puts spans of one start in any order.
LastSpans == {s \in t.spans : \A r \in t.spans : s.start >= r.start}

Spliced(text, first, last, new) ==
  SubSeq(text, 1, first) \o new \o SubSeq(text, last + 1, Len(text))
\* The place of a placeholder's bytes.
Nowhere == [k \in 1..PlaceholderLen |-> 0]

\* One iteration: a span that is no longer inside the text is passed over.
Replace ==
  /\ at = "replace"
  /\ \E s \in LastSpans :
       LET text == t.out[t.m]
           original == SubSeq(text, s.start + 1, s.end)
           p == Allocated(s.type, original)
           valid == s.end <= Len(text)
           w == [t EXCEPT !.spans = @ \ {s},
                  !.out[t.m] = IF valid THEN Spliced(@, s.start, s.end, Placeholder(p)) ELSE @,
                  !.traced[t.m].from = IF valid THEN Spliced(@, s.start, s.end, Nowhere) ELSE @]
       IN  /\ IF w.spans = {} THEN Proceed(w) ELSE t' = w /\ UNCHANGED <<at, msgs>>
           /\ mappings' = IF valid THEN [q \in DOMAIN mappings \cup {p} |->
                                        IF q = p THEN original ELSE mappings[q]] ELSE mappings
           /\ counters' = IF valid /\ p \notin DOMAIN mappings
                          THEN [counters EXCEPT ![s.type] = @ + 1] ELSE counters
  /\ UNCHANGED <<streamVars, history>>

\* The chain is through: the provider reads the messages.
Send ==
  /\ at = "analyze" /\ t.pos = Len(Chain) + 1
  /\ at' = "llm"
  /\ history' = [history EXCEPT !.traced = t.traced,
                                !.sent = [i \in DOMAIN msgs |-> Marshalled(msgs[i])]]
  /\ t' = NoWork
  /\ UNCHANGED <<streamVars, msgs, mappings, counters>>

\* The provider's words: its own, and placeholders it was sent.
Token == Word \cup DOMAIN mappings
Spoken(x) == IF x \in Word THEN WordText(x) ELSE Placeholder(x)
Meaning(x) == IF x \in Word THEN WordText(x) ELSE mappings[x]

\* A choice: a message echoed, words of its own, or tool calls; and what is meant.
Choice ==
  {[content |-> history.sent[i], tools |-> FALSE, means |-> history.asked[i]] :
     i \in IF history.clean THEN DOMAIN msgs ELSE {}} \cup
  {[content |-> FlattenSeq([i \in DOMAIN x |-> Spoken(x[i])]), tools |-> FALSE,
    means |-> FlattenSeq([i \in DOMAIN x |-> Meaning(x[i])])] :
     x \in UNION {[1..n -> Token] : n \in 1..MaxTokens}} \cup
  {[content |-> <<>>, tools |-> TRUE, means |-> <<>>]}

Answer ==
  /\ at = "llm"
  /\ \E n \in 0..MaxChoices : \E cs \in [1..n -> Choice] :
       /\ choices' = [c \in 1..n |-> [content |-> cs[c].content, tools |-> cs[c].tools]]
       /\ history' = [history EXCEPT !.meant = [c \in 1..n |-> cs[c].means]]
  /\ at' = "restore"
  /\ UNCHANGED <<rest, got, sending, msgs, t, mappings, counters>>

\* strings.Replacer: one pass, from left to right.
Restored(text) ==
  LET from[k \in 1..Len(text) + 1] ==
        LET found == {p \in DOMAIN mappings : IsPrefix(Placeholder(p), SubSeq(text, k, Len(text)))}
        IN  IF k > Len(text) THEN <<>>
            ELSE IF found = {} THEN <<text[k]>> \o from[k + 1]
            ELSE mappings[CHOOSE p \in found : TRUE] \o from[k + PlaceholderLen]
  IN  from[1]

\* Faulty: the first choice alone.
DeanonymizeFirst ==
  /\ at = "restore"
  /\ choices' = [c \in DOMAIN choices |->
       IF c = 1 THEN [choices[c] EXCEPT !.content = Restored(@)] ELSE choices[c]]
  /\ at' = "reply"
  /\ UNCHANGED <<rest, got, sending, msgs, t, mappings, counters, history>>

Deanonymize ==
  /\ at = "restore"
  /\ choices' = [c \in DOMAIN choices |-> [choices[c] EXCEPT !.content = Restored(@)]]
  /\ at' = "reply"
  /\ UNCHANGED <<rest, got, sending, msgs, t, mappings, counters, history>>

Reply ==
  /\ at = "reply" /\ (WriteJSON \/ WriteSSE)
  /\ UNCHANGED <<at, msgs, t, mappings, counters, history>>

Next == Analyze \/ AnalyzeFails \/ Replace \/ Send \/ Answer \/ Deanonymize \/ Reply

Spec == Init /\ [][Next]_vars

-----------------------------------------------------------------------------
(* Properties. *)

\* A message of the provider's: placeholders, and the client's own bytes but the hidden.
Hides(i, hidden) ==
  LET sent == history.sent[i]
      from == history.traced[i].from
  IN  /\ Len(from) = Len(sent)
      /\ \A k \in 1..Len(sent) :
           \/ from[k] = 0 /\ IsPlaceholder(sent[k])
           \/ /\ from[k] \in DOMAIN history.asked[i] \ hidden
              /\ sent[k] = history.asked[i][from[k]]

\* No byte of a detection gets to the provider, in whatever form the message came, unless
\* a detection replaced before it overlaps it (README.md:41, presidio.go:170).
NothingFoundIsSent ==
  at \in {"llm", "restore", "reply"} =>
    \A i \in DOMAIN msgs : Hides(i, history.traced[i].apart)

\* No byte of any detection gets to the provider: "PII round-trips without ever reaching
\* the LLM provider" (README.md:41), "earlier spans stay valid" (presidio.go:170).
FoundIsNotSent ==
  at \in {"llm", "restore", "reply"} =>
    \A i \in DOMAIN msgs : Hides(i, history.traced[i].found)

\* A value has one placeholder throughout (state.go:38).
OnePlaceholder == \A p, r \in DOMAIN mappings : mappings[p] = mappings[r] => p = r

\* What the client gets is what the provider meant, and its own message when that
\* is echoed; for that a placeholder stands for one value (presidio.go:153).
RoundTrip ==
  /\ OnePlaceholder
  /\ at = "reply" => \A c \in DOMAIN choices : choices[c].content = history.meant[c]
=============================================================================
