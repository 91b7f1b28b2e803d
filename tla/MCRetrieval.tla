----------------------------- MODULE MCRetrieval -----------------------------
(* Retrieval for TLC: clauses of up to MaxWords words, lists of up to        *)
(* MaxHits hits, and the shapes of document that the parser distinguishes.   *)
EXTENDS Retrieval

CONSTANTS MaxWords, MaxHits, Inline

-----------------------------------------------------------------------------
(* Clauses: two keywords of one domain one inside the other, twice, keywords *)
(* of a third domain, a stop word, and a word of no domain.                  *)

MCWords == {"hazardous", "waste", "certified", "payroll", "osha", "the", "site"}
MCLetters == [w \in MCWords |-> CASE w = "the" -> 3 [] w \in {"osha", "site"} -> 4
                                  [] w = "waste" -> 5 [] w = "payroll" -> 7 [] OTHER -> 9]
MCStopWords == {<<"the">>}

\* What follows the last word makes no difference.
MCTexts ==
    UNION { { [i \in 1..n |-> [word |-> words[i],
                               then |-> IF i = n THEN "break" ELSE seps[i]]] :
              words \in [1..n -> MCWords], seps \in [1..(n - 1) -> {"space", "hyphen", "break"}] } :
            n \in 1..MaxWords }

-----------------------------------------------------------------------------
(* Hits: with a section number in full, one without the part, a part only, a  *)
(* section of no part, an appendix without anything, a title that is no       *)
(* number.                                                                    *)

MCHits ==
    { [title |-> "40", part |-> <<"261">>, section |-> <<"261", "10">>],
      [title |-> "40", part |-> <<"262">>, section |-> NoNumber],
      [title |-> "29", part |-> <<"261">>, section |-> <<"10">>],
      [title |-> "29", part |-> NoNumber,  section |-> <<"10">>],
      [title |-> "",   part |-> NoNumber,  section |-> NoNumber],
      [title |-> "IV", part |-> <<"262">>, section |-> <<"262", "10">>] }

MCResultLists == UNION {[1..n -> MCHits] : n \in 0..MaxHits}

\* With inline markup only a section is asked for.
MCRequests ==
    IF Inline THEN { [part |-> <<"261">>, section |-> <<"10">>] }
    ELSE { WholeTitle, [part |-> <<"261">>, section |-> NoNumber],
           [part |-> <<"262">>, section |-> <<"10">>] }

MCTitles == {"29", "40", "41", "48"}

-----------------------------------------------------------------------------
(* Documents: elements with attributes or only with headings; a title, a     *)
(* part or a section as the root; a section without paragraphs; another      *)
(* section or an appendix, whose heading looks like a section's, in front of *)
(* it; inline markup when Inline.                                            *)

Element(depth, tag, type, n) ==
    [depth |-> depth, tag |-> tag, type |-> type, n |-> n, kind |-> "",
     num |-> NoNumber, text |-> FALSE, tail |-> FALSE]

Heading(depth, kind, num) ==
    [Element(depth, "HEAD", "", NoNumber) EXCEPT !.kind = kind, !.num = num, !.text = TRUE]

Paragraph(depth) == << [Element(depth, "other", "", NoNumber) EXCEPT !.text = TRUE] >>

\* A paragraph with a word in italics.
Italics(depth) ==
    Paragraph(depth) \o
    << [Element(depth + 1, "other", "", NoNumber) EXCEPT !.text = TRUE, !.tail = TRUE] >>

Bodies(depth) ==
    {<<>>, Paragraph(depth), Paragraph(depth) \o Paragraph(depth)}
        \cup (IF Inline THEN {Italics(depth)} ELSE {})

\* An element of a type, known by its attributes or by its heading only.
Unit(depth, type, num, typed, headed) ==
    << Element(depth, "other", IF typed THEN type ELSE "",
               IF typed THEN num ELSE NoNumber) >> \o
    (IF headed THEN << Heading(depth + 1, type, num) >> ELSE <<>>)

Sections(depth, num, typed) ==
    { Unit(depth, "SECTION", num, typed, headed) \o body :
        headed \in BOOLEAN, body \in Bodies(depth + 1) }

AppendixOf(depth) ==
    << Element(depth, "other", "APPENDIX", NoNumber),
       Heading(depth + 1, "SECTION", <<"261", "10">>) >> \o Paragraph(depth + 1)

Parts(depth, num, typed) ==
    { Unit(depth, "PART", num, typed, headed) \o first \o section :
        headed \in BOOLEAN,
        first \in {<<>>, AppendixOf(depth + 1),
                  Unit(depth + 1, "SECTION", num \o <<"1">>, typed, TRUE) \o Paragraph(depth + 2)},
        section \in {<<>>} \cup Sections(depth + 1, num \o <<"10">>, typed) }

MCDocuments ==
    LET Root == << Element(0, "other", "", NoNumber) >>
    IN  UNION { Sections(0, <<"261", "10">>, typed)
                \cup Parts(0, <<"261">>, typed)
                \cup {Root \o p \o q : p \in Parts(1, <<"262">>, typed),
                                       q \in Parts(1, <<"261">>, typed)} :
                typed \in BOOLEAN }

\* But for inline markup the instance is one the theorem about exact texts covers.
ASSUME MCRegular == ~Inline => RegularRegulations
=============================================================================
