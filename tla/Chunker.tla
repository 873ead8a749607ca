------------------------------ MODULE Chunker ------------------------------
(***************************************************************************)
(* knowledge/ingestion/chunker.py: a markdown document cut at its headers  *)
(* into chunks, each with the tail of the one before it.                   *)
(*                                                                         *)
(* A line is its header level, 0 for none, and its text, a sequence of     *)
(* characters: "w" for any of a word, ".", "?" and "!", "_" for a space,   *)
(* "/" for the newline between two lines.  The text of a header is its     *)
(* title, which may be blank; a chunk names a header by the number of its  *)
(* line, and the title of the document by 0.                               *)
(***************************************************************************)
EXTENDS Naturals, SequencesExt

CONSTANT OverlapChars   \* DEFAULT_OVERLAP_CHARS
ASSUME OverlapIsPositive == OverlapChars \in Nat \ {0}

Newline == "/"
White == {"_", Newline}

Inked(text) == {i \in DOMAIN text : text[i] \notin White}
Strip(text) ==
  IF Inked(text) = {} THEN <<>> ELSE SubSeq(text, Min(Inked(text)), Max(Inked(text)))

-----------------------------------------------------------------------------
(* _overlap_tail *)

\* Where the text after a separator begins: after a newline, or else after a
\* mark and a space, for the first of the marks that is there.
AfterLine(text) == {i \in 2 .. Len(text) + 1 : text[i - 1] = Newline}
AfterMark(text, mark) ==
  {i \in 3 .. Len(text) + 1 : text[i - 2] = mark /\ text[i - 1] = "_"}
AfterSeparator(text) ==
  FoldLeft(LAMBDA found, next : IF found # {} THEN found ELSE next,
           AfterLine(text), [n \in 1 .. 3 |-> AfterMark(text, <<".", "?", "!">>[n])])

LastOf(text, n) == SubSeq(text, Len(text) - n + 1, Len(text))

\* Fault: " " for ". ", so that a sentence is cut at any blank.
OverlapTail_AtBlank(text) ==
  LET body == Strip(text)
      tail == LastOf(body, OverlapChars)
      blanks == {i \in 2 .. Len(tail) : tail[i - 1] = "_"}
      starts == IF AfterLine(tail) # {} THEN AfterLine(tail) ELSE blanks \cup {Len(tail)}
  IN IF Len(body) <= OverlapChars THEN body
     ELSE Strip(SubSeq(tail, Min(starts), Len(tail)))

OverlapTail(text) ==
  LET body == Strip(text)
      tail == LastOf(body, OverlapChars)
  IN IF Len(body) <= OverlapChars THEN body
     ELSE Strip(IF AfterSeparator(tail) = {} THEN tail
                ELSE SubSeq(tail, Min(AfterSeparator(tail)), Len(tail)))

-----------------------------------------------------------------------------
(* chunk_document: one pass over the lines, with the last h1, the last h2  *)
(* under it, and the section that is open.                                 *)

Opened(header, parent, level) ==
  [header |-> header, parent |-> parent, level |-> level, lines |-> <<>>]
NoSection == Opened(0, 0, 0)

\* "\n".join(lines).strip()
Body(lines) ==
  Strip(FoldLeft(LAMBDA text, line : text \o <<Newline>> \o line, <<>>, lines))

\* _flush: a section without a body is no chunk.
Flushed(pass) ==
  IF pass.open = NoSection \/ Body(pass.open.lines) = <<>> THEN pass.sections
  ELSE Append(pass.sections, pass.open)

\* Fault: a new h1 keeps the h2 of the last one.
LastH2_Kept(pass, i, level, title) == IF level = 2 THEN i ELSE pass.h2

\* `h2 or h1` takes an h2 with a blank title for none.
LastH2(pass, i, level, title) ==
  CASE level = 1 -> 0
    [] level = 2 -> IF Inked(title) = {} THEN 0 ELSE i
    [] level = 3 -> pass.h2

AfterHeader(pass, i, level, title) ==
  [h1 |-> IF level = 1 THEN i ELSE pass.h1,
   h2 |-> LastH2(pass, i, level, title),
   open |-> CASE level = 1 -> NoSection
              [] level = 2 -> Opened(i, pass.h1, 2)
              [] level = 3 -> Opened(i, IF pass.h2 # 0 THEN pass.h2 ELSE pass.h1, 3),
   sections |-> Flushed(pass)]

\* A line outside every section is dropped.
AfterText(pass, text) ==
  IF pass.open = NoSection THEN pass
  ELSE [pass EXCEPT !.open.lines = Append(@, text)]

Sections(document) ==
  Flushed(FoldLeftDomain(
    LAMBDA pass, i : IF document[i].level = 0 THEN AfterText(pass, document[i].text)
                     ELSE AfterHeader(pass, i, document[i].level, document[i].text),
    [h1 |-> 0, h2 |-> 0, open |-> NoSection, sections |-> <<>>], document))

\* _finalize_chunks: a chunk is numbered by its place, and overlaps the chunk
\* before it.
Chunks(document) ==
  LET sections == Sections(document)
      body == [n \in DOMAIN sections |-> Body(sections[n].lines)]
  IN [n \in DOMAIN sections |->
        [header |-> sections[n].header, parent |-> sections[n].parent,
         level |-> sections[n].level, content |-> body[n],
         overlap |-> IF n = 1 THEN <<>> ELSE OverlapTail(body[n - 1])]]

-----------------------------------------------------------------------------
(* What a chunking must be, said without the pass. *)

\* The last header of a level in `levels` before line i, 0 if there is none.
LastHeader(document, i, levels) ==
  Max({0} \cup {j \in 1 .. i - 1 : document[j].level \in levels})
NextHeader(document, i) ==
  Min({Len(document) + 1} \cup
      {j \in i + 1 .. Len(document) : document[j].level # 0})
BodyUnder(document, i) ==
  Body([n \in 1 .. NextHeader(document, i) - i - 1 |-> document[i + n].text])

\* The header that header i belongs to; nothing belongs to an h2 without a title.
ParentOf(document, i) ==
  LET above == LastHeader(document, i, 1 .. document[i].level - 1)
  IN IF above # 0 /\ document[above].level = 2 /\ Inked(document[above].text) = {}
     THEN LastHeader(document, i, {1})
     ELSE above

\* "Split markdown by headers": the chunks are the h2 and h3 headers that have
\* text under them, in order, each with all of its text and none of another's;
\* an h3 belongs to the h2 it is under, if it is under one that has a title.
CutAtHeaders(document, chunks) ==
  /\ {chunks[n].header : n \in DOMAIN chunks} =
       {i \in DOMAIN document : /\ document[i].level \in {2, 3}
                                /\ BodyUnder(document, i) # <<>>}
  /\ \A n \in DOMAIN chunks :
       LET i == chunks[n].header IN
       /\ n > 1 => i > chunks[n - 1].header
       /\ chunks[n].level = document[i].level
       /\ chunks[n].content = BodyUnder(document, i)
       /\ chunks[n].parent = ParentOf(document, i)

\* Where a line begins in the last characters of a text, and a sentence.
LineStarts(limit) == {i \in 2 .. Len(limit) : limit[i - 1] = Newline}
SentenceStarts(limit) ==
  {i \in 3 .. Len(limit) : limit[i - 2] \in {".", "?", "!"} /\ limit[i - 1] = "_"}

\* Where an overlap may start: at the first of the lines, if one begins there,
\* or else at a sentence, if one begins there, or else with all there is.
Starts(limit) ==
  IF LineStarts(limit) # {} THEN {Min(LineStarts(limit))}
  ELSE IF SentenceStarts(limit) # {} THEN SentenceStarts(limit)
  ELSE {1}

\* "trailing overlap between adjacent sections": the overlap of a chunk is the
\* chunk before it, if that is within the limit, and otherwise an end of it
\* within the limit, never empty: the whole lines that fit, or if no line
\* begins there, whole sentences, or if no sentence does either, all that fits;
\* of these only blanks in front are left out.
OverlapsThePrevious(chunks) ==
  \A n \in DOMAIN chunks \ {1} :
    LET before == chunks[n - 1].content
        overlap == chunks[n].overlap
        limit == LastOf(before, OverlapChars)
        begin == OverlapChars - Len(overlap) + 1
    IN IF Len(before) <= OverlapChars THEN overlap = before
       ELSE /\ overlap # <<>> /\ Len(overlap) <= OverlapChars
            /\ overlap = LastOf(before, Len(overlap))
            /\ \E i \in Starts(limit) :
                 i <= begin /\ \A j \in i .. begin - 1 : limit[j] \in White
=============================================================================
