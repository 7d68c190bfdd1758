----------------------------- MODULE ListPages ------------------------------
(***************************************************************************)
(* Lists in pages.  WhatsApp takes at most Rows rows in a list, and the    *)
(* rows "back" and "more" are among them: the first page leaves one free,  *)
(* a page in the middle two, the last one.  A page is shown as rows with   *)
(* an id and as numbered lines, and both are answered.                     *)
(***************************************************************************)
EXTENDS Integers, Sequences, FiniteSets, SequencesExt

CONSTANT Rows       \* rows of a list message: 10

ASSUME RowsAssumption == Rows \in Nat /\ Rows >= 3

\* The id of a row: cat_, q_, slot_ or page_ and a number.
Option(kind, of) == [kind |-> kind, of |-> of]

\* Variant: the pages after the first start one item late.
Bounds_SkipsOne(total) ==
    LET from[offset \in 0..total] ==
            IF offset = total THEN <<>>
            ELSE LET rest == total - offset
                     room == IF offset > 0 /\ rest <= Rows - 1 THEN rest
                             ELSE IF offset = 0 THEN Rows - 1 ELSE Rows - 2
                     start == IF offset = 0 THEN 0 ELSE offset + 1
                 IN  <<[start |-> start, end |-> offset + room]>> \o from[offset + room]
    IN  from[0]

\* The loop over the offsets; slice(start, end) leaves out what starts at end.
Bounds(total) ==
    LET from[offset \in 0..total] ==
            IF offset = total THEN <<>>
            ELSE LET rest == total - offset
                     room == IF offset > 0 /\ rest <= Rows - 1 THEN rest
                             ELSE IF offset = 0 THEN Rows - 1 ELSE Rows - 2
                 IN  <<[start |-> offset, end |-> offset + room]>> \o from[offset + room]
    IN  from[0]

\* paginarItens: the page asked for, brought into the range of the pages.
Paginate(items, asked) ==
    IF Len(items) <= Rows
    THEN [items |-> items, at |-> 1, pages |-> 1]
    ELSE LET bounds == Bounds(Len(items))
             pages  == Len(bounds)
             at     == IF asked < 1 THEN 1 ELSE IF asked > pages THEN pages ELSE asked
         IN  [items |-> SubSeq(items, bounds[at].start + 1, bounds[at].end),
              at |-> at, pages |-> pages]

HasBack(p) == p.at > 1
HasMore(p) == p.at < p.pages

\* opcaoAnterior and opcaoProxima: the numbers of the lines below the items.
BackNumber(p) == Len(p.items) + 1
MoreNumber(p) == IF HasBack(p) THEN Len(p.items) + 2 ELSE Len(p.items) + 1

\* The rows of the message, which are also the lines of its text, from 1.
RowsOf(p, kind) ==
    [i \in 1..Len(p.items) |-> Option(kind, p.items[i])]
    \o (IF HasBack(p) THEN <<Option("page", p.at - 1)>> ELSE <<>>)
    \o (IF HasMore(p) THEN <<Option("page", p.at + 1)>> ELSE <<>>)

\* What a number typed selects on the page p; None when nothing has it.
ByNumber(p, kind, n, None) ==
    IF HasBack(p) /\ n = BackNumber(p) THEN Option("page", p.at - 1)
    ELSE IF HasMore(p) /\ n = MoreNumber(p) THEN Option("page", p.at + 1)
    ELSE IF n \in 1..Len(p.items) THEN Option(kind, p.items[n])
    ELSE None

\* validateOutgoingMessage for a list: one row to Rows rows, no id twice.
Accepted(rows) ==
    /\ Len(rows) \in 1..Rows
    /\ Cardinality(Range(rows)) = Len(rows)
=============================================================================
