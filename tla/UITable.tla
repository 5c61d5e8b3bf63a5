------------------------------- MODULE UITable -------------------------------
(***************************************************************************)
(* ui/UITable.js: a table of beans with a filter, pages, and a modal popup *)
(* that edits one bean or a new one.  An event handler runs to its end     *)
(* before the next one, so an action is a handler; the data that outlives  *)
(* it is in the table's state, in its PageList and in the page the browser *)
(* shows: the rows of the table and the value of the filter input.         *)
(*                                                                         *)
(* A bean is a number; it has one filterable field.  The array in          *)
(* state.beans holds items that refer to beans; an item is a number too.   *)
(***************************************************************************)
EXTENDS PageList, FiniteSets

CONSTANTS Value,      \* the values of the filterable field, one a match of itself
          Undefined,  \* the value of a field that a bean does not have
          NoFilter,   \* the empty filter input
          PageSize,   \* the page sizes the table offers
          RangeSize,  \* the pages around the current one that are offered
          MaxBeans,   \* bound: the beans of one setBeans
          MaxItem     \* bound: the items that are ever made

ASSUME TableAssumption ==
  /\ Undefined \notin Value /\ NoFilter \notin Value
  /\ PageSize \subseteq Nat /\ PageSize # {} /\ 0 \notin PageSize
  /\ RangeSize \in Nat /\ RangeSize > 0 /\ RangeSize % 2 = 0
  /\ MaxItem \in Nat /\ MaxBeans \in 0 .. MaxItem

Item == 1 .. MaxItem
BeanState == {"ORIGIN", "NEW", "MODIFIED", "DELETED"}

VARIABLES
  beans,      \* state.beans
  beanOf,     \* per item: its bean
  field,      \* per bean: its field
  pstate,     \* per bean: its persistableState
  last,       \* the last item that has been made
  configSize, \* config.pageSize, which all tables of a class share
  pageSize,   \* state.pageSize
  pageList,
  held,       \* the array of the page list when it is not state.beans itself
  aliased,    \* the page list shares state.beans
  counts,     \* newCount, modifiedCount and deletedCount of the state
  input,      \* the filter input
  shown,      \* the rows the browser shows
  popup,      \* the popup: its bean and the row it was opened for, -1 for none
  removed,    \* history: items that were removed
  thrown      \* history: a _filter() has thrown since the last one that did not

dataVars  == <<beans, beanOf, field, pstate, last>>
viewVars  == <<configSize, pageSize, pageList, held, aliased, input, shown>>
vars == <<dataVars, viewVars, counts, popup, removed, thrown>>

NoPopup == [open |-> FALSE, bean |-> 0, row |-> -1]
List == IF aliased THEN beans ELSE held
ItemAt(row) == pageList.current[row + 1]
Rows == 0 .. Len(shown) - 1
Elements(seq) == {seq[k] : k \in DOMAIN seq}

\* The items of a list at some of its positions, in the order of the list.
Selection(list, K) ==
  LET place == CHOOSE f \in [1 .. Cardinality(K) -> K] :
                 \A a, b \in DOMAIN f : a < b => f[a] < f[b]
  IN [k \in DOMAIN place |-> list[place[k]]]

\* An event of the table: the popup is modal.
Event == ~popup.open

-----------------------------------------------------------------------------
(* What the handlers share                                                 *)

\* renderRows: the browser shows the current page.
RenderRows(p, list) ==
  /\ pageList' = CurrentPageItems(p, list)
  /\ shown' = pageList'.current

\* _filter with the filter f, in pages of a size, then renderRows.
FilterAndRender(size, f, bs, of, fields) ==
  /\ aliased' = (f = NoFilter)
  /\ held' = IF f = NoFilter THEN <<>>
             ELSE Selection(bs, {k \in DOMAIN bs : fields[of[bs[k]]] = f})
  /\ RenderRows(NewPageList(size, IF aliased' THEN bs ELSE held'),
                IF aliased' THEN bs ELSE held')
  /\ thrown' = FALSE

\* A bean without the field makes _filter throw: the page list stays.
Throws(f, bs, of, fields) ==
  f # NoFilter /\ \E i \in Elements(bs) : fields[of[i]] = Undefined

\* _updateBeanStateCount
CountOf(s, bs, of, states) == Cardinality({k \in DOMAIN bs : states[of[bs[k]]] = s})

Count(bs, of, states) ==
  counts' = [s \in BeanState \ {"ORIGIN"} |-> CountOf(s, bs, of, states)]

-----------------------------------------------------------------------------
Init ==
  \E n \in 0 .. MaxBeans, fields \in [Item -> Value \cup {Undefined}] :
    /\ beans = [k \in 1 .. n |-> k]
    /\ beanOf = [i \in Item |-> i]
    /\ field = [i \in Item |-> IF i <= n THEN fields[i] ELSE Undefined]
    /\ pstate = [i \in Item |-> "ORIGIN"]
    /\ last = n
    /\ pageSize \in PageSize /\ configSize = pageSize
    /\ pageList = CurrentPageItems(NewPageList(pageSize, beans), beans)
    /\ held = <<>> /\ aliased = TRUE
    /\ counts = [s \in BeanState \ {"ORIGIN"} |-> 0]
    /\ input = NoFilter
    /\ shown = pageList.current
    /\ popup = NoPopup
    /\ removed = {} /\ thrown = FALSE

\* setBeans with other beans, then render: the toolbar is made anew, with an
\* empty filter input, after the old one has been used to filter.
SetBeans ==
  /\ Event
  /\ pageSize' = configSize
  /\ \E n \in 0 .. MaxBeans :
     \E fields \in [last + 1 .. last + n -> Value \cup {Undefined}] :
       /\ last + n <= MaxItem
       /\ last' = last + n
       /\ beans' = [k \in 1 .. n |-> last + k]
       /\ field' = [i \in Item |-> IF i \in DOMAIN fields THEN fields[i] ELSE field[i]]
       /\ IF Throws(input, beans', beanOf, field')
          THEN /\ held' = List /\ aliased' = FALSE /\ thrown' = TRUE
               /\ UNCHANGED <<input, pageList, shown>>
          ELSE /\ FilterAndRender(configSize, input, beans', beanOf, field')
               /\ input' = NoFilter
  /\ counts' = [s \in BeanState \ {"ORIGIN"} |-> 0]
  /\ UNCHANGED <<beanOf, pstate, configSize, popup, removed>>

\* render: the view is shown again, for instance from the breadcumbs.
Render ==
  /\ Event
  /\ input' = NoFilter
  /\ RenderRows(pageList, List)
  /\ UNCHANGED <<dataVars, configSize, pageSize, held, aliased, counts, popup, removed, thrown>>

\* The user changes the filter; an exception leaves the rows as they are.
OnDfltBeanFilter ==
  /\ Event
  /\ input' \in Value \cup {NoFilter}
  /\ IF Throws(input', beans, beanOf, field)
     THEN thrown' = TRUE /\ UNCHANGED <<pageList, held, aliased, shown>>
     ELSE FilterAndRender(pageSize, input', beans, beanOf, field)
  /\ UNCHANGED <<dataVars, configSize, pageSize, counts, popup, removed>>

\* The page list has the new size, and so will the next setBeans; until then
\* state.pageSize keeps the old one.
OnSelectDisplayRow ==
  /\ Event
  /\ configSize' \in PageSize
  /\ RenderRows(SetPageSize(pageList, configSize'), List)
  /\ UNCHANGED <<dataVars, pageSize, held, aliased, input, counts, popup,
                 removed, thrown>>

\* The same in another table of the class, whose config it is too.
SelectDisplayRowElsewhere ==
  /\ Event
  /\ configSize' \in PageSize
  /\ UNCHANGED <<dataVars, pageSize, pageList, held, aliased, input, shown, counts,
                 popup, removed, thrown>>

\* The pages the page iterator of the rows offers.
OfferedPages ==
  LET range == SubRange(pageList.currentPage, RangeSize, pageList.availablePage)
  IN range[1] .. range[2]
       \cup {PrevPage(pageList), NextPage(pageList)}
       \cup (IF range[1] > 1 THEN {1} ELSE {})
       \cup (IF range[2] < pageList.availablePage THEN {pageList.availablePage} ELSE {})

\* Bug: pages can be turned under the popup, as if it were not modal.
OnSelectPage_NotModal ==
  /\ \E page \in OfferedPages :
       /\ page >= 1 /\ page <= pageList.availablePage
       /\ RenderRows(GetPage(pageList, List, page), List)
  /\ UNCHANGED <<dataVars, configSize, pageSize, held, aliased, input, counts, popup,
                 removed, thrown>>

OnSelectPage ==
  /\ Event
  /\ \E page \in OfferedPages :
       /\ page >= 1 /\ page <= pageList.availablePage
       /\ RenderRows(GetPage(pageList, List, page), List)
  /\ UNCHANGED <<dataVars, configSize, pageSize, held, aliased, input, counts, popup,
                 removed, thrown>>

MarkDeletedItemOnCurrentPage ==
  /\ Event
  /\ \E row \in Rows : pstate' = [pstate EXCEPT ![beanOf[ItemAt(row)]] = "DELETED"]
  /\ Count(beans, beanOf, pstate')
  /\ RenderRows(pageList, List)
  /\ UNCHANGED <<beans, beanOf, field, last, configSize, pageSize, held, aliased, input, popup,
                 removed, thrown>>

\* Bug: the item is taken out of the page list only.
RemoveItemOnCurrentPage_ViewOnly ==
  /\ Event
  /\ \E row \in Rows :
       /\ removed' = removed \cup {ItemAt(row)}
       /\ pageList' = RemoveItem(pageList, List, row)
       /\ held' = Without(List, From(pageList.currentPage, pageList.pageSize) + row)
  /\ aliased' = FALSE
  /\ shown' = pageList'.current
  /\ UNCHANGED <<beans, beanOf, field, pstate, last, configSize, pageSize, input, counts, popup, thrown>>

\* The item is taken out of the page list's array and out of state.beans, which
\* may be the same array; the counts stay as they are.
RemoveItemOnCurrentPage ==
  /\ Event
  /\ \E row \in Rows :
       LET rest == Without(List, From(pageList.currentPage, pageList.pageSize) + row)
       IN /\ removed' = removed \cup {ItemAt(row)}
          /\ pageList' = RemoveItem(pageList, List, row)
          /\ IF aliased THEN beans' = rest /\ held' = held
             ELSE /\ beans' = Selection(beans, {k \in DOMAIN beans : beans[k] # ItemAt(row)})
                  /\ held' = rest
  /\ shown' = pageList'.current
  /\ UNCHANGED <<beanOf, field, pstate, last, configSize, pageSize, aliased, input, counts, popup, thrown>>

-----------------------------------------------------------------------------
(* The popup                                                               *)

\* A new bean has the next number; its field may have a default value.
OnAddBean ==
  /\ Event
  /\ last < MaxItem
  /\ popup' = [open |-> TRUE, bean |-> last + 1, row |-> -1]
  /\ \E v \in Value \cup {Undefined} : field' = [field EXCEPT ![last + 1] = v]
  /\ UNCHANGED <<beans, beanOf, pstate, last, viewVars, counts, removed, thrown>>

OnEditBean ==
  /\ Event
  /\ \E row \in Rows :
       popup' = [open |-> TRUE, bean |-> beanOf[ItemAt(row)], row |-> row]
  /\ UNCHANGED <<dataVars, viewVars, counts, removed, thrown>>

\* onChangeInput: the bean itself is changed.
Edit ==
  /\ popup.open
  /\ \E v \in Value : field' = [field EXCEPT ![popup.bean] = v]
  /\ UNCHANGED <<beans, beanOf, pstate, last, viewVars, counts, popup, removed, thrown>>

SaveEdited ==
  /\ popup.open /\ popup.row >= 0
  /\ pstate' = [pstate EXCEPT ![beanOf[ItemAt(popup.row)]] = "MODIFIED"]
  /\ Count(beans, beanOf, pstate')
  /\ RenderRows(pageList, List)
  /\ UNCHANGED <<beans, beanOf, field, last, configSize, pageSize, held, aliased, input, popup,
                 removed, thrown>>

\* addBean: every save adds an item for the bean, even when it has one; the
\* popup stays open.  _filter may throw when the item has been added.  (Every
\* table of the program has got beans, and so a state, before it is shown.)
SaveNew ==
  /\ popup.open /\ popup.row < 0
  /\ last < MaxItem
  /\ last' = last + 1
  /\ beanOf' = [beanOf EXCEPT ![last + 1] = popup.bean]
  /\ beans' = Append(beans, last + 1)
  /\ pstate' = [pstate EXCEPT ![popup.bean] = "NEW"]
  /\ Count(beans', beanOf', pstate')
  /\ IF Throws(input, beans', beanOf', field)
     THEN thrown' = TRUE /\ UNCHANGED <<pageList, held, aliased, shown>>
     ELSE FilterAndRender(pageSize, input, beans', beanOf', field)
  /\ UNCHANGED <<field, configSize, pageSize, input, popup, removed>>

\* The bean keeps what was edited, saved or not.
ClosePopup ==
  /\ popup.open
  /\ popup' = NoPopup
  /\ UNCHANGED <<dataVars, viewVars, counts, removed, thrown>>

-----------------------------------------------------------------------------
Next ==
  \/ SetBeans \/ Render \/ OnDfltBeanFilter \/ OnSelectDisplayRow
  \/ SelectDisplayRowElsewhere \/ OnSelectPage
  \/ MarkDeletedItemOnCurrentPage \/ RemoveItemOnCurrentPage
  \/ OnAddBean \/ OnEditBean \/ Edit \/ SaveEdited \/ SaveNew \/ ClosePopup

Spec == Init /\ [][Next]_vars

-----------------------------------------------------------------------------
(* Properties                                                              *)

\* A click on a row is about the bean the user sees in that row: between two
\* events the rows of the browser are the current page of the page list, and
\* this is a page of the list as it is now, not empty unless the list is (or
\* was, when an exception of _filter kept the old pages).
ShownIsCurrent ==
  /\ pageList.populated /\ shown = pageList.current
  /\ pageList.currentPage <= pageList.availablePage
  /\ shown = SubSeq(List, From(pageList.currentPage, pageList.pageSize) + 1,
                    To(pageList.currentPage, pageList.pageSize, pageList.available))
  /\ shown = <<>> => List = <<>> \/ thrown

\* The user can turn to every item that the page list counts, and it counts
\* all of its list; after an exception of _filter kept the old pages it may
\* count less, and an item that was added then is on no page.
PagesCoverList ==
  /\ \A k \in 1 .. pageList.available : \E page \in 1 .. pageList.availablePage :
       k - 1 \in From(page, pageList.pageSize)
                   .. To(page, pageList.pageSize, pageList.available) - 1
  /\ pageList.available <= Len(List)
  /\ ~thrown => pageList.available = Len(List)

\* Saving a popup marks the bean that was edited in it, although the popup only
\* keeps the row it was opened for.
PopupRowIsItsBean ==
  popup.open /\ popup.row >= 0 =>
    popup.row \in Rows /\ beanOf[ItemAt(popup.row)] = popup.bean

\* An item that was removed never comes back, neither when the filter changes
\* nor when pages are turned.
NoGhostRows == removed \cap (Elements(beans) \cup Elements(shown)) = {}
=============================================================================
