------------------------------- MODULE XmlTree -------------------------------
(***************************************************************************)
(* The parser of eCFR documents (parsing/xml_parser.py): which element of  *)
(* a document is the part or the section asked for, and the text that is   *)
(* taken from it.                                                          *)
(*                                                                         *)
(* A document is the sequence of its elements in document order, each with *)
(* its depth. A number is the sequence of its dotted components, <<>> for  *)
(* none: part 60-1 is <<"60-1">>, section 60-1.4 is <<"60-1", "4">>. What  *)
(* an element says is not modelled, only whether it has text of its own    *)
(* (elem.text) and text after its end tag (elem.tail), and what a heading  *)
(* says of the number. Numbers are compared as if in one case.             *)
(***************************************************************************)
EXTENDS Order

NoNumber == <<>>

\* An element has, besides its depth: the tag, "HEAD" or "other"; type and n, the
\* attributes TYPE and N, "" and NoNumber for none; kind and num, what a HEAD begins
\* with: "PART" and a number, or the section sign ("SECTION") and a number; text and
\* tail, whether there is any.
Elements ==
    [depth : Nat, tag : STRING, type : STRING, n : Seq(STRING), kind : STRING,
     num : Seq(STRING), text : BOOLEAN, tail : BOOLEAN]

\* The last element before the end tag of i.
LastInside(doc, i) ==
    LET outside == {m \in (i + 1)..Len(doc) : doc[m].depth <= doc[i].depth}
    IN  IF outside = {} THEN Len(doc) ELSE First(outside) - 1

Subtree(doc, i) == i..LastInside(doc, i)

\* The HEAD children of i.
Heads(doc, i) ==
    {k \in Subtree(doc, i) : doc[k].tag = "HEAD" /\ doc[k].depth = doc[i].depth + 1}

\* What the direct HEAD of i says of its number.
head_number(doc, i, kind) ==
    IF Heads(doc, i) = {} THEN NoNumber
    ELSE LET head == doc[First(Heads(doc, i))]
         IN  IF head.text /\ head.kind = kind THEN head.num ELSE NoNumber

\* _node_number: the attributes decide when there is a TYPE, the heading otherwise.
node_number(doc, i, kind) ==
    CASE doc[i].type = kind -> doc[i].n
      [] doc[i].type = ""   -> head_number(doc, i, kind)
      [] OTHER              -> NoNumber

\* _find_all
find_all(doc, scope, kind, number) ==
    {i \in Subtree(doc, scope) : node_number(doc, i, kind) = number}

\* A section without a dot gets the part in front.
requested_section(part, section) ==
    IF Len(section) = 1 /\ part # NoNumber THEN part \o section ELSE section

\* _find_target_node: 0 when there is none. A payload without the part may still
\* be the section itself, or hold it.
find_target_node(doc, part, section) ==
    LET parts == IF part = NoNumber THEN {} ELSE find_all(doc, 1, "PART", part)
        scope == IF parts = {} THEN 1 ELSE First(parts)
        number == requested_section(part, section)
        found == find_all(doc, scope, "SECTION", number)
    IN  CASE section = NoNumber -> IF parts = {} THEN 0 ELSE scope
          [] section # NoNumber /\ found # {} -> First(found)
          [] section # NoNumber /\ found = {} ->
                IF node_number(doc, 1, "SECTION") = number THEN 1 ELSE 0

-----------------------------------------------------------------------------
(* The text of an element: a sequence of pieces *)

Piece(k, where) == [node |-> k, where |-> where]

\* _extract_text_from_node: elem.iter(), and of each element its elem.text.
extract_text_from_node(doc, i) ==
    LET inside == Ascending({k \in Subtree(doc, i) : doc[k].text})
    IN  [r \in DOMAIN inside |-> Piece(inside[r], "text")]

\* The end tag of k stands before that of m; of two at one place, the inner one does.
EndsBefore(doc, k, m) ==
    \/ LastInside(doc, k) < LastInside(doc, m)
    \/ LastInside(doc, k) = LastInside(doc, m) /\ k > m

\* _iter_text_blocks: iterparse reports an element at its end tag, so after the
\* elements inside it.
iter_text_blocks(doc) ==
    InOrder({Piece(k, "text") : k \in {m \in DOMAIN doc : doc[m].text}},
            LAMBDA p, q : EndsBefore(doc, p.node, q.node))

\* The first heading among the pieces of a text, 0 for none.
first_heading(doc, text) ==
    LET heads == {r \in DOMAIN text : doc[text[r].node].tag = "HEAD"}
    IN  IF heads = {} THEN 0 ELSE text[First(heads)].node

\* Mutant: what the payload has is taken for what was asked for.
parse_regulation_xml_WholePayload(doc, part, section) ==
    LET text == iter_text_blocks(doc)
    IN  [ok |-> text # <<>>, text |-> text, heading |-> first_heading(doc, text)]

\* parse_regulation_xml: without part and section the whole document; no element,
\* or one without any text, is an error.
parse_regulation_xml(doc, part, section) ==
    LET target == find_target_node(doc, part, section)
        text == IF part = NoNumber /\ section = NoNumber THEN iter_text_blocks(doc)
                ELSE IF target = 0 THEN <<>> ELSE extract_text_from_node(doc, target)
    IN  [ok |-> text # <<>>, text |-> text, heading |-> first_heading(doc, text)]

-----------------------------------------------------------------------------
(* What a reader of the document sees, for the properties *)

\* A piece stands before another on the page.
ReadBefore(doc, p, q) ==
    CASE p.where = "text" /\ q.where = "text" -> p.node < q.node
      [] p.where = "text" /\ q.where = "tail" -> p.node <= LastInside(doc, q.node)
      [] p.where = "tail" /\ q.where = "text" -> LastInside(doc, p.node) < q.node
      [] OTHER -> EndsBefore(doc, p.node, q.node)

\* All the text between the tags of element i, in the order it is read.
ExactText(doc, i) ==
    InOrder({Piece(k, "text") : k \in {m \in Subtree(doc, i) : doc[m].text}} \cup
            {Piece(k, "tail") : k \in {m \in Subtree(doc, i) \ {i} : doc[m].tail}},
            LAMBDA p, q : ReadBefore(doc, p, q))

\* The parts or sections of a document that have a number.
Units(doc, kind, number) == {i \in DOMAIN doc : node_number(doc, i, kind) = number}
=============================================================================
