------------------------------ MODULE PageList ------------------------------
(***************************************************************************)
(* util/PageList.js: a list that is looked at one page at a time.  The     *)
(* pages are numbered from 1, the positions of the list from 0 as in the   *)
(* source.  A page list is a record; the list itself, an array that its    *)
(* owner may share and change, is a parameter of the operators.  The page  *)
(* that was cut out of the list last is kept in "current"; it is valid     *)
(* when "populated" (currentListPage is not null).                         *)
(***************************************************************************)
EXTENDS Integers, Sequences

\* Bug: the last, incomplete page is not counted.
AvailablePage_Floor(available, pageSize) ==
  IF available = 0 THEN 1 ELSE available \div pageSize

\* Math.ceil(available / pageSize), and one empty page for an empty list.
AvailablePage(available, pageSize) ==
  IF available = 0 THEN 1 ELSE (available + pageSize - 1) \div pageSize

\* getFrom and getTo: the positions of a page, from included, to excluded.
From(page, pageSize) == (page - 1) * pageSize

To(page, pageSize, available) ==
  IF page * pageSize > available THEN available ELSE page * pageSize

SetAvailablePage(p, available) ==
  [p EXCEPT !.available = available,
            !.availablePage = AvailablePage(available, p.pageSize),
            !.currentPage = 1,
            !.populated = FALSE,
            !.current = <<>>]

NewPageList(pageSize, list) ==
  SetAvailablePage([pageSize |-> pageSize, available |-> 0, availablePage |-> 1,
                    currentPage |-> 1, populated |-> FALSE, current |-> <<>>],
                   Len(list))

SetPageSize(p, pageSize) ==
  SetAvailablePage([p EXCEPT !.pageSize = pageSize], p.available)

\* list.slice(getFrom(), getTo()), for a page that is in range.
GetPage(p, list, page) ==
  [p EXCEPT !.currentPage = page,
            !.populated = TRUE,
            !.current = SubSeq(list, From(page, p.pageSize) + 1,
                               To(page, p.pageSize, p.available))]

CurrentPageItems(p, list) ==
  IF p.populated THEN p ELSE GetPage(p, list, p.currentPage)

PrevPage(p) == IF p.currentPage = 1 THEN 1 ELSE p.currentPage - 1

NextPage(p) ==
  IF p.currentPage = p.availablePage THEN p.currentPage ELSE p.currentPage + 1

\* list.splice(position, 1)
Without(list, position) ==
  SubSeq(list, 1, position) \o SubSeq(list, position + 2, Len(list))

\* Bug: the page is not brought back into the range that is left.
RemoveItem_NoClamp(p, list, row) ==
  LET rest == Without(list, From(p.currentPage, p.pageSize) + row)
  IN GetPage(SetAvailablePage(p, Len(rest)), rest, p.currentPage)

\* removeItemOnCurrentPage: the page list after it, with its new list.
RemoveItem(p, list, row) ==
  LET rest == Without(list, From(p.currentPage, p.pageSize) + row)
      q == SetAvailablePage(p, Len(rest))
  IN GetPage(q, rest, IF q.availablePage < p.currentPage THEN q.availablePage
                                                         ELSE p.currentPage)

\* getSubRange: the pages around a page, for an even rangeSize (its only caller
\* has 10).
SubRange(page, rangeSize, availablePage) ==
  LET half == rangeSize \div 2
  IN IF rangeSize >= availablePage THEN <<1, availablePage>>
     ELSE IF page - half < 1 THEN <<1, rangeSize>>
     ELSE IF page + (rangeSize - half) > availablePage
       THEN <<availablePage - rangeSize, availablePage>>
     ELSE <<page - half, page + (rangeSize - half)>>
=============================================================================
