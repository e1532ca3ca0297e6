------------------------------ MODULE TextFormat -------------------------------
(***************************************************************************)
(* What becomes of a text and its bold spans: bridge/textfmt/splitting.py, *)
(* tg2bale.py and bale2tg.py, with the entities that types_map.py of       *)
(* bridge/transfer builds for Telegram.  Telegram counts in UTF-16 units,  *)
(* Python in characters, and Bale's Markdown puts marks into the text.     *)
(* Bold stands for every format; no user types a mark.                     *)
(***************************************************************************)
EXTENDS Naturals, FiniteSets, SequencesExt

CONSTANTS
  MaxText,    \* bound: characters of a text
  MaxMarked,  \* bound: characters of a text with bold spans
  MaxMarks,   \* bound: bold spans
  MaxLimit,   \* bound: the limits a text is split at
  LIMIT_TEXT  \* the limits of a message a text with bold spans is sent under

ASSUME TextAssumption ==
  /\ {MaxText, MaxMarked, MaxMarks, MaxLimit} \subseteq Nat
  /\ LIMIT_TEXT \subseteq Nat \ {0}

VARIABLES
  text,   \* the characters of a message as its author wrote it
  marks   \* its entities, in UTF-16 units

textVars == <<text, marks>>

\* A wide character takes two UTF-16 units.
Char == {"plain", "wide", "newline"}
\* The header of a forwarded message begins with a wide character.
Header == <<"wide", "plain">>

TextTypeOK ==
  /\ text \in Seq(Char) /\ Len(text) <= MaxText
  /\ Cardinality(marks) <= MaxMarks

TextInit == text = <<>> /\ marks = {}

Write(c) ==
  /\ Len(text) < MaxText /\ marks = {}
  /\ text' = Append(text, c)
  /\ UNCHANGED marks

-----------------------------------------------------------------------------
(* UTF-16 *)

\* The units of the first i characters.
Units(t, i) ==
  FoldLeft(LAMBDA u, c : u + (IF c = "wide" THEN 2 ELSE 1), 0, SubSeq(t, 1, i))

\* Takes units for characters.
IndexAsIs(t, u) == IF u <= Len(t) THEN u ELSE Len(t)
IndexAt(t, u) == CHOOSE i \in 0..Len(t) : Units(t, i) = u

\* The author makes the characters behind the i-th bold, up to the j-th.
Mark(i, j) ==
  /\ Len(text) <= MaxMarked /\ Cardinality(marks) < MaxMarks
  /\ i < j /\ j <= Len(text)
  /\ marks' = marks \cup {[offset |-> Units(text, i),
                           length |-> Units(text, j) - Units(text, i)]}
  /\ UNCHANGED text

-----------------------------------------------------------------------------
(* Splitting *)

Lines(t) ==
  FoldLeft(LAMBDA ls, i : IF i = 1 \/ t[i - 1] = "newline"
                          THEN Append(ls, <<t[i]>>)
                          ELSE [ls EXCEPT ![Len(ls)] = Append(@, t[i])],
           <<>>, [i \in DOMAIN t |-> i])

Pieces(line, limit) ==
  [n \in 1..((Len(line) + limit - 1) \div limit) |->
     SubSeq(line, (n - 1) * limit + 1,
            IF n * limit <= Len(line) THEN n * limit ELSE Len(line))]

Flushed(s) ==
  IF s.buf = <<>> THEN s ELSE [parts |-> Append(s.parts, s.buf), buf |-> <<>>]

\* A long line does not wait for what is in the buffer.
AddedAtOnce(s, line, limit) ==
  IF Len(line) > limit
  THEN [s EXCEPT !.parts = @ \o Pieces(line, limit)]
  ELSE IF Len(s.buf) + Len(line) > limit
       THEN [Flushed(s) EXCEPT !.buf = line]
       ELSE [s EXCEPT !.buf = @ \o line]
Added(s, line, limit) ==
  LET f == IF Len(s.buf) + Len(line) > limit THEN Flushed(s) ELSE s
  IN  IF Len(line) > limit
      THEN [f EXCEPT !.parts = @ \o Pieces(line, limit)]
      ELSE [f EXCEPT !.buf = @ \o line]

split_text(t, limit) ==
  IF Len(t) <= limit
  THEN <<t>>
  ELSE Flushed(FoldLeft(LAMBDA s, line : Added(s, line, limit),
                        [parts |-> <<>>, buf |-> <<>>], Lines(t))).parts

-----------------------------------------------------------------------------
(* Telegram to Bale: entities become marks *)

OuterFirst(a, b) == a.start < b.start \/ (a.start = b.start /\ a.end > b.end)

tg_text_to_bale(t, es) ==
  LET spans == SetToSortSeq({ [start |-> IndexAt(t, e.offset),
                               end |-> IndexAt(t, e.offset + e.length)] : e \in es },
                            OuterFirst)
      marked(s, span) ==
        IF span.start < s.cursor
        THEN s
        ELSE [out |-> s.out \o SubSeq(t, s.cursor + 1, span.start)
                      \o <<"*">> \o SubSeq(t, span.start + 1, span.end) \o <<"*">>,
              cursor |-> span.end]
      all == FoldLeft(marked, [out |-> <<>>, cursor |-> 0], spans)
  IN  all.out \o SubSeq(t, all.cursor + 1, Len(t))

-----------------------------------------------------------------------------
(* Bale to Telegram: marks become entities *)

\* The ends of the bold text that a mark at i begins: the next mark, on the same line.
BoldEnd(t, i) ==
  { j \in (i + 2)..Len(t) :
      t[i] = "*" /\ t[j] = "*" /\ \A n \in (i + 1)..(j - 1) : t[n] \notin {"*", "newline"} }

\* Marks that pair up, from the left, are dropped; what they enclose is listed.
bale_text_to_tg(t) ==
  LET scan(s, i) ==
        IF i < s.pos
        THEN s
        ELSE IF BoldEnd(t, i) = {}
             THEN [s EXCEPT !.plain = Append(@, t[i])]
             ELSE LET j == CHOOSE j \in BoldEnd(t, i) : TRUE
                  IN  [plain |-> s.plain \o SubSeq(t, i + 1, j - 1),
                       bold |-> s.bold \cup {[start |-> Len(s.plain), len |-> j - i - 1]},
                       pos |-> j + 1]
  IN  FoldLeft(scan, [plain |-> <<>>, bold |-> {}, pos |-> 1], [i \in DOMAIN t |-> i])

\* A body without a visible character is left out.
join_header(h, body) ==
  IF h = <<>> THEN body
  ELSE IF \A i \in DOMAIN body : body[i] = "newline" THEN h
       ELSE h \o <<"newline">> \o body

build_entities(t, ents) ==
  { [offset |-> Units(t, e.start),
     length |-> Units(t, e.start + e.len) - Units(t, e.start)] :
      e \in { e \in ents : e.start + e.len <= Len(t) /\ e.len > 0 } }

\* The messages a text becomes on Bale: the marks are in when it is split.
msg_to_bale(h, t, es, limit) == split_text(join_header(h, tg_text_to_bale(t, es)), limit)

\* The messages a text becomes on Telegram.  The header moves the entities by its
\* characters.  The parts of a text that is too long are sent without entities, and so
\* is one whose entities the client does not take (a TypeError).
msg_to_tg(h, md, limit, taken) ==
  LET parsed == bale_text_to_tg(md)
      full == join_header(h, parsed.plain)
      shift == Len(h) + (IF h = <<>> THEN 0 ELSE 1)
      shifted == { [e EXCEPT !.start = @ + shift] : e \in parsed.bold }
  IN  IF Len(full) <= limit
      THEN << [text |-> full,
               entities |-> IF taken THEN build_entities(full, shifted) ELSE {}] >>
      ELSE [n \in DOMAIN split_text(full, limit) |->
              [text |-> split_text(full, limit)[n], entities |-> {}]]

TextNext == (\E c \in Char : Write(c)) \/ (\E i, j \in 0..MaxMarked : Mark(i, j))

-----------------------------------------------------------------------------
(* Properties *)

\* The parts of a long text are the text, in order and complete, each within the
\* limit and none empty; a line is only cut when it does not fit into one part.
SplitSound ==
  \A limit \in 1..MaxLimit :
    LET parts == split_text(text, limit)
    IN  /\ FlattenSeq(parts) = text
        /\ text # <<>> => \A n \in DOMAIN parts : Len(parts[n]) \in 1..limit
        /\ \A n \in 1..(Len(parts) - 1) :
             \/ Last(parts[n]) = "newline"
             \/ Len(parts[n]) = limit /\ ~Contains(parts[n], "newline")

Overlap(d, e) == d.offset < e.offset + e.length /\ e.offset < d.offset + d.length
Outer(d, e) ==
  Overlap(d, e) /\ (d.offset < e.offset \/ (d.offset = e.offset /\ d.length > e.length))

\* How far a header moves what follows it, in UTF-16 units.
HeaderUnits(h) == IF h = <<>> THEN 0 ELSE Units(h, Len(h)) + 1

\* Bold as before, moved by that many units, except that of spans that overlap the
\* outer one, or the first, is kept (tg2bale.py: the outermost has priority).
BoldAs(before, after, units) ==
  LET kept == { e \in before : [e EXCEPT !.offset = @ + units] \in after }
  IN  /\ Cardinality(after) = Cardinality(kept)
      /\ \A d, e \in kept : d = e \/ ~Overlap(d, e)
      /\ \A e \in before \ kept : \E d \in kept : Outer(d, e)

\* A text goes to Bale and comes back, forwarded or not.  Its messages on Bale are,
\* together, the text with its marks; when it is one message it comes back as the text
\* it was, behind its headers, in messages within the limit, and bold where it was bold if
\* that is one message and its entities are taken.  A message of text has some.
\* Bale's Markdown ends at the end of a line, so no span crosses one.
BoldKept ==
  /\ text # <<>>
  /\ (\A e \in marks : \A i \in DOMAIN text :
        text[i] = "newline" => ~Overlap(e, [offset |-> Units(text, i - 1), length |-> 1]))
  => \A limit \in LIMIT_TEXT, h \in {<<>>, Header}, g \in {<<>>, Header} :
       LET there == msg_to_bale(h, text, marks, limit)
           whole == join_header(g, join_header(h, text))
       IN  /\ \A n \in DOMAIN there : Len(there[n]) <= limit
           /\ FlattenSeq(there) = join_header(h, tg_text_to_bale(text, marks))
           /\ Len(there) = 1 =>
                \A taken \in BOOLEAN :
                  LET back == msg_to_tg(g, there[1], limit, taken)
                  IN  /\ FlattenSeq([n \in DOMAIN back |-> back[n].text]) = whole
                      /\ \A n \in DOMAIN back : Len(back[n].text) <= limit
                      /\ taken /\ Len(whole) <= limit =>
                           BoldAs(marks, back[1].entities, HeaderUnits(h) + HeaderUnits(g))
=============================================================================
