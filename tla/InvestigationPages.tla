------------------------- MODULE InvestigationPages -------------------------
(***************************************************************************)
(* InvestigationPage of application/investigation-work.ts: every match is  *)
(* counted, and one contiguous run of them is kept, from an offset up to a *)
(* number of items and of bytes.  A match is a change with a before and an *)
(* after image, and its bytes are the images it carries.                   *)
(***************************************************************************)
EXTENDS Naturals, Sequences

Carried(image, Absent) == IF image = Absent THEN 0 ELSE 1

ItemSize(item, Absent) == Carried(item.before, Absent) + Carried(item.after, Absent)

EmptyPage == [items |-> << >>, bytes |-> 0, full |-> FALSE, total |-> 0, over |-> FALSE]

\* One match; over is the refusal of a first item that does not fit.
AddItem(page, options, item, size) ==
  LET counted == [page EXCEPT !.total = @ + 1] IN
  IF page.total < options.offset \/ page.full THEN counted
  ELSE IF Len(page.items) = options.limit THEN [counted EXCEPT !.full = TRUE]
  ELSE IF page.bytes + size > options.maxResult
       THEN IF page.items = << >> THEN [counted EXCEPT !.over = TRUE]
                                  ELSE [counted EXCEPT !.full = TRUE]
  ELSE [counted EXCEPT !.items = Append(@, item), !.bytes = @ + size]

NoOffset == 0

\* Mutant of NextOffset: a page that ends the matches points past them.
NextOffsetInclusive(page, options) ==
  LET end == options.offset + Len(page.items) IN
  IF end <= page.total THEN end ELSE NoOffset

\* The offset of what follows the page; NoOffset when the page ends the matches.
NextOffset(page, options) ==
  LET end == options.offset + Len(page.items) IN
  IF end < page.total THEN end ELSE NoOffset

\* All items of a list added in turn; an oversized first item stops the adding.
AddAll(page, options, items, Absent) ==
  LET after[i \in 0 .. Len(items)] ==
        IF i = 0 THEN page
        ELSE IF after[i - 1].over THEN after[i - 1]
        ELSE AddItem(after[i - 1], options, items[i], ItemSize(items[i], Absent))
  IN after[Len(items)]

Answer(page, options) ==
  [items |-> page.items, total |-> page.total, next |-> NextOffset(page, options)]

--------------------------------------------------------------------------
\* A page of all matches: contiguous from the offset, counted in full, and
\* pointing at its first missing match when there is one.
PageOf(answer, options, all) ==
  /\ answer.total = Len(all)
  /\ answer.items =
       SubSeq(all, options.offset + 1, options.offset + Len(answer.items))
  /\ Len(answer.items) <= options.limit
  /\ IF options.offset + Len(answer.items) < Len(all)
     THEN /\ answer.next = options.offset + Len(answer.items)
          /\ answer.next > options.offset
     ELSE answer.next = NoOffset
=============================================================================
