------------------------------ MODULE FormParser ------------------------------
(***************************************************************************)
(* The parser of the demo's web server for the body of a POST request      *)
(* (parse_post_request_chunk() in httpd-simple.c), with url_unescape() for *)
(* the values it hands to the handlers and html_escape_quotes(), which a   *)
(* page uses to show them again.                                           *)
(*                                                                         *)
(* The body arrives in chunks cut anywhere, and the read that brings its   *)
(* end may bring more than Content-Length has announced.  The buffers are  *)
(* static: a body finds in them what the one before has left.  A character *)
(* is one of those the parser tells apart, or stands for all others.       *)
(*                                                                         *)
(* HttpdPost has an abstract view of the same parser; ChunkAsAbstracted    *)
(* states that it is a sound one.  An operator Name_Fault is a wrong       *)
(* version of Name, kept to show that the properties below notice it; no   *)
(* action uses one.                                                        *)
(***************************************************************************)
EXTENDS Integers, SequencesExt

CONSTANTS
  Chars,                    \* the characters of a body
  Bodies,                   \* the bodies that may be sent
  Surplus,                  \* what may be sent after a body
  PARSE_POST_BUF_SIZES,     \* 64 in the code
  HTML_ESCAPED_BUFFER_SIZE, \* 128 in the code
  KnownKey, BadValue        \* the key a handler knows, and a value it refuses

ASSUME BodyAssumption == Bodies \subseteq Seq(Chars) /\ Surplus \subseteq Seq(Chars)

ASSUME BufferAssumption ==
  /\ PARSE_POST_BUF_SIZES \in Nat /\ PARSE_POST_BUF_SIZES > 2
  /\ HTML_ESCAPED_BUFFER_SIZE \in Nat /\ HTML_ESCAPED_BUFFER_SIZE > 1

\* A key that a handler knows fits in the buffer.
ASSUME KeyAssumption ==
  KnownKey \in Seq(Chars) /\ Len(KnownKey) < PARSE_POST_BUF_SIZES

VARIABLES
  body,     \* the body of the request, as long as Content-Length says
  more,     \* what the peer sends after it
  at,       \* how much of all that has been parsed
  parser    \* the static variables state, key, val, val_len and val_escaped;
            \* finish, what the handlers said of this pair; and, as history,
            \* accepted: the pairs a handler has accepted

parserVars == <<body, more, at, parser>>

PARSE_POST_MAX_POS == PARSE_POST_BUF_SIZES - 2

Hex   == {"0", "2"}
QUOTE == "\""
NUL   == "NUL"
Blank == [i \in 0..(PARSE_POST_BUF_SIZES - 1) |-> NUL]

Position(c, s) == {i \in DOMAIN s : s[i] = c}
UpTo(c, s) ==
  LET found == Position(c, s)
  IN IF found = {} THEN s
     ELSE SubSeq(s, 1, Min(found) - 1)

------------------------------------------------------------------------------
(* url_unescape(): it looks two characters ahead, also past srclen.         *)

Decode(a, b) == IF a = "0" /\ b = "0" THEN NUL
                ELSE IF a = "2" /\ b = "2" THEN QUOTE ELSE "other"

Byte(src, i) == IF i \in DOMAIN src THEN src[i] ELSE NUL

EscapeAt(src, i) ==
  src[i] = "%" /\ Byte(src, i + 1) \in Hex /\ Byte(src, i + 2) \in Hex

\* The character that the one at i becomes, and where the loop goes on.
CharAt(src, i) == IF EscapeAt(src, i) THEN Decode(src[i + 1], src[i + 2])
                  ELSE IF src[i] = "+" THEN " " ELSE src[i]
After(src, i) == IF EscapeAt(src, i) THEN i + 3 ELSE i + 1

url_unescape(src, srclen) ==
  LET from[i \in 0..(srclen + 2)] ==
        IF i >= srclen THEN <<>> ELSE <<CharAt(src, i)>> \o from[After(src, i)]
  IN from[0]

\* html_escape_quotes(): the text and how much of the buffer it takes, after the
\* first i characters; "stop" once the loop is left.
QuoteFits_NoTerminator(dstpos) == dstpos + 6 <= HTML_ESCAPED_BUFFER_SIZE
QuoteFits(dstpos) == dstpos + 7 <= HTML_ESCAPED_BUFFER_SIZE

Escaped(c) == IF c = QUOTE THEN "&quot;" ELSE c

EscapeStep(out, c) ==
  IF \/ out.stop
     \/ out.dstpos >= HTML_ESCAPED_BUFFER_SIZE - 1
     \/ c = NUL
     \/ c = QUOTE /\ ~QuoteFits(out.dstpos)
  THEN [out EXCEPT !.stop = TRUE]
  ELSE [out EXCEPT !.text = Append(@, Escaped(c)),
                   !.dstpos = @ + IF c = QUOTE THEN 6 ELSE 1]

html_escape_quotes(src) ==
  LET out[i \in 0..Len(src)] ==
        IF i = 0 THEN [text |-> <<>>, dstpos |-> 0, stop |-> FALSE]
                 ELSE EscapeStep(out[i - 1], src[i])
  IN out[Len(src)]

------------------------------------------------------------------------------
\* The handlers, asked one after the other until one knows the key.
handler(k, v) == IF k # KnownKey THEN "UNKNOWN"
                 ELSE IF v = BadValue THEN "ERROR" ELSE "OK"

(* parse_post_request_chunk(), for one character.                           *)

Fail(p) == [p EXCEPT !.state = "ERROR"]

\* A new pair begins with its first character.
StartPair(p) ==
  IF p.state \notin {"INIT", "MORE"} THEN p
  ELSE [p EXCEPT !.state = "READING_KEY", !.key = <<>>, !.val = Blank,
                 !.val_len = 0, !.val_escaped = <<>>, !.finish = "NONE"]

Room_OneMore(n) == n <= PARSE_POST_MAX_POS + 1
Room(n) == n <= PARSE_POST_MAX_POS

ReadKey(p, c) ==
  CASE c = "=" -> [p EXCEPT !.state = "READING_VAL"]
    [] c = "&" -> Fail(p)
    [] OTHER   -> IF Room(Len(p.key)) THEN [p EXCEPT !.key = Append(@, c)]
                                      ELSE Fail(p)

Unknown_NextPair(p) == [p EXCEPT !.state = "MORE"]
Unknown(p) == p

\* The pair is complete.  With a key no handler knows the state stays as it is.
Finish(p) ==
  LET v == UpTo(NUL, url_unescape(p.val, p.val_len))
      result == handler(p.key, v)
      q == [p EXCEPT !.val_escaped = v, !.val_len = Len(v), !.finish = result]
  IN CASE result = "OK"      -> [q EXCEPT !.state = "MORE",
                                          !.accepted = Append(@, <<p.key, v>>)]
       [] result = "ERROR"   -> Fail(q)
       [] result = "UNKNOWN" -> Unknown(q)

ReadVal(p, c, final) ==
  CASE c = "&" -> Finish(p)
    [] c = "=" -> Fail(p)
    [] OTHER   ->
         IF ~Room(p.val_len) THEN Fail(p)
         ELSE LET q == [p EXCEPT !.val[p.val_len] = c, !.val_len = @ + 1]
              IN IF final THEN Finish(q) ELSE q

Parse(p, c, final) ==
  LET q == StartPair(p)
  IN CASE q.state = "READING_KEY" -> ReadKey(q, c)
       [] q.state = "READING_VAL" -> ReadVal(q, c, final)
       [] OTHER                   -> q

\* The character at i of what arrives.
Arrived(i) == IF i <= Len(body) THEN body[i] ELSE more[i - Len(body)]

\* "final": the last character of the last chunk, if the chunk ends where the body
\* does.  After a read that brought more content_length is not zero but negative.
Final_EveryChunk(i, n) == i = n
Final(i, n) == i = n /\ at + n = Len(body)

------------------------------------------------------------------------------
ParserInit ==
  /\ body \in Bodies
  /\ more \in Surplus
  /\ at = 0
  /\ \E left \in {[k |-> <<>>, v |-> Blank, n |-> 0],
                  [k |-> KnownKey, v |-> [Blank EXCEPT ![0] = "2"], n |-> 1]} :
       parser = [state |-> "INIT", key |-> left.k, val |-> left.v, val_len |-> left.n,
                 val_escaped |-> <<>>, finish |-> "NONE", accepted |-> <<>>]

\* The parser after each of the next n characters.
Steps(n) ==
  LET step[i \in 0..n] == IF i = 0 THEN parser
                          ELSE Parse(step[i - 1], Arrived(at + i), Final(i, n))
  IN step

\* A pass of the loop in handle_input(): the next n characters, as long as some of
\* the body is left.
ParseChunk(n) ==
  /\ at < Len(body)
  /\ parser.state # "ERROR"
  /\ at' = at + n
  /\ parser' = Steps(n)[n]
  /\ UNCHANGED <<body, more>>

ParserNext == \E n \in 1..(Len(body) + Len(more) - at) : ParseChunk(n)

ParserSpec == ParserInit /\ [][ParserNext]_parserVars

------------------------------------------------------------------------------
(* What a form means, whatever the chunks: fields separated by "&", each a  *)
(* key and a value; an escape is a percent sign and two digits.             *)

Escapes(raw) == {i \in Position("%", raw) :
                   i + 2 <= Len(raw) /\ raw[i + 1] \in Hex /\ raw[i + 2] \in Hex}
Sign(raw, i) == IF i \in Escapes(raw) THEN Decode(raw[i + 1], raw[i + 2])
                ELSE IF raw[i] = "+" THEN " " ELSE raw[i]
Unescaped(raw) ==
  LET text[i \in 0..Len(raw)] ==
        IF i = 0 THEN <<>>
        ELSE IF i - 1 \in Escapes(raw) \/ i - 2 \in Escapes(raw) THEN text[i - 1]
        ELSE Append(text[i - 1], Sign(raw, i))
  IN text[Len(raw)]

\* Field f ends before Cut[f], with the next "&" or with the body.
Cut ==
  LET cut[f \in 0..(Len(body) + 1)] ==
        IF f = 0 THEN 0
        ELSE Min({Len(body) + 1} \union {i \in Position("&", body) : i > cut[f - 1]})
  IN cut
Fields == {f \in 1..(Len(body) + 1) : Cut[f - 1] <= Len(body)}
Field(f) == SubSeq(body, Cut[f - 1] + 1, Cut[f] - 1)
Key(f)   == UpTo("=", Field(f))
Raw(f)   == SubSeq(Field(f), Len(Key(f)) + 2, Len(Field(f)))
Value(f) == UpTo(NUL, Unescaped(Raw(f)))
Fits(s)  == Len(s) < PARSE_POST_BUF_SIZES

\* The last field must have a value, the others may be "key=".
Good(f) ==
  /\ \E i \in DOMAIN Field(f) : Position("=", Field(f)) = {i}
  /\ Fits(Key(f)) /\ Fits(Raw(f))
  /\ Raw(f) # <<>> \/ f + 1 \in Fields
  /\ handler(Key(f), Value(f)) = "OK"

GoodFields == {f \in Fields : \A g \in 1..f : Good(g)}

\* A body may end with "&".
GoodForm ==
  \A f \in Fields : f \in GoodFields \/ (f > 1 /\ f + 1 \notin Fields /\ Field(f) = <<>>)

------------------------------------------------------------------------------
ParserTypeOK ==
  /\ at \in 0..(Len(body) + Len(more))
  /\ parser.state \in {"INIT", "MORE", "READING_KEY", "READING_VAL", "ERROR"}
  /\ Len(parser.key) < PARSE_POST_BUF_SIZES
  /\ DOMAIN parser.val = DOMAIN Blank
  /\ parser.val_len \in 0..(PARSE_POST_BUF_SIZES - 1)

\* The look-ahead of url_unescape() does not leave the buffer, though nothing in
\* it checks that: the last byte is never written, and is no digit.
LookAheadInside ==
  \A i \in DOMAIN Blank :
    parser.val[i] = "%" /\ Byte(parser.val, i + 1) \in Hex => i + 2 \in DOMAIN Blank

\* When a body has been parsed, to its end or up to an error, exactly the pairs
\* of its good fields have been accepted, in order, unescaped; and the answer
\* is OK just when the form is a good one.  Nothing of this is promised once a
\* read has brought more than the body: the last value may then grow by what
\* follows it, and it is not finished.
PairsAsSent ==
  at = Len(body) \/ (parser.state = "ERROR" /\ at < Len(body)) =>
    /\ parser.accepted = [f \in GoodFields |-> <<Key(f), Value(f)>>]
    /\ parser.state = "MORE" <=> GoodForm

\* A value shown in a page is cut between characters, never inside "&quot;", and
\* stays in the buffer together with its terminating zero.
QuotesWhole ==
  LET shown == html_escape_quotes(parser.val_escaped)
  IN /\ shown.dstpos < HTML_ESCAPED_BUFFER_SIZE
     /\ IsPrefix(shown.text, [i \in DOMAIN parser.val_escaped |->
                               Escaped(parser.val_escaped[i])])

\* The parser as HttpdPost sees it.
Handled == INSTANCE HttpdPost
  WITH Conns <- {"s"}, Unreliable <- {}, NULL <- "none", MaxChunks <- 1,
       phase <- at, content_length <- at, return_code <- at, lock <- at,
       state <- parser, config_ok <- FALSE, posted <- FALSE, quiet <- at,
       own <- at, pending <- {}

Seen(p) == CASE p.state \in {"INIT", "MORE", "ERROR"}   -> p.state
             [] p.state = "READING_VAL" /\ p.finish = "UNKNOWN"      -> "SPILL"
             [] OTHER                                   -> "PAIR"

\* What a chunk does to the parser is what HttpdPost says some chunk does.
ChunkAsAbstracted ==
  [][\E c \in Handled!Chunk :
       LET p == Seen(parser)
       IN /\ Seen(parser') = Handled!AfterChunk(p, c)
          /\ (parser'.accepted # parser.accepted) = Handled!Accepts(p, c)]_parserVars
==============================================================================
