-------------------------------- MODULE UIBean --------------------------------
(***************************************************************************)
(* ui/UIBean.js with UIBean.jtpl: an editor of an array of beans, one tab  *)
(* for each.  A handler runs to its end before the next one, so an action  *)
(* is a handler with its render(); what outlives it are the states by tab, *)
(* the beans, and two kinds of timers: the search of an autocompletion     *)
(* (500 ms after a key) and the date picker (300 ms after its blur).       *)
(*                                                                         *)
(* A tab is named beanName_i, so beanStates is a sequence and a name is a  *)
(* position in it.  A bean is an object: a number with its fields in val.  *)
(* It has a plain input that the validator takes for a number, one with    *)
(* multiple values, one with an autocompletion and a date.                 *)
(***************************************************************************)
EXTENDS Naturals, Sequences, SequencesExt, FiniteSets

CONSTANTS Undefined,  \* the value of a field that a bean does not have
          Nobody,     \* origin of a bean that has not been changed
          Bound,      \* per bean: its plain input, a text or a number, if it is bound
          Term,       \* the terms of a search; the search finds the term itself
          MaxBean,    \* bound: the beans that are ever made
          MaxEdit,    \* bound: the inputs that are entered
          MaxTimer,   \* bound: the dates, and the searches of earlier focuses, that wait
          MaxMulti    \* bound: the values of the multiple input

Bean == 1 .. MaxBean
Input == {"bad", "good"}   \* a text the validator refuses (as the empty one) or takes
Plain == Input \cup {"number"}   \* or the number that it makes of a good text
Single == {"", "text"}     \* one value of the multiple input
Date == {"today"}

Fields == [input  : Plain \cup {Undefined}, multi : Seq(Single) \cup {Undefined},
           custom : Term \cup {Undefined},  date  : Date \cup {Undefined}]

ASSUME BeanAssumption ==
  /\ MaxBean \in Nat \ {0} /\ MaxEdit \in Nat /\ MaxTimer \in Nat /\ MaxMulti \in Nat
  /\ Bound \in [Bean -> {"good", "number"}]
  /\ Undefined \notin Term /\ Undefined \notin Seq(Single) /\ Nobody \notin Fields

VARIABLES
  array,     \* beanArray: the beans in the order of the tabs
  states,    \* beanStates, in the order of their names
  val,       \* per bean: its fields
  last,      \* the last bean that has been made
  focus,     \* the autocompletion of the selected tab has the focus
  text,      \* the text in that input
  list,      \* the page shows the list of a search
  result,    \* fieldConfig.custom.autocomplete.searchResult
  searches,  \* searches that wait for their 500 ms, first to last
  dates,     \* blurred date pickers that wait for their 300 ms, first to last
  edits,     \* bound: the inputs entered so far
  initial,   \* history: per bean, its fields when it was bound
  slipped,   \* history: beans changed while no original was kept
  lateClick, \* history: beans for which a list was clicked after the blur
  spoiled    \* history: the text was left as it was because of such a click

stateVars == <<array, states, last>>
inputVars == <<focus, text, list, result, searches, dates>>
history   == <<slipped, lateClick, spoiled>>
vars == <<stateVars, val, inputVars, edits, initial, history>>

NewBean == [input |-> Undefined, multi |-> Undefined, custom |-> Undefined,
            date |-> Undefined]
NewState(b, editMode, select) ==
  [bean |-> b, editMode |-> editMode, select |-> select, origin |-> Nobody,
   onChange |-> FALSE, onSelect |-> FALSE]

\* Only the selected tab is displayed; its inputs are there in edit mode.
Shown(i) == i \in DOMAIN states /\ states[i].select
Editing(i) == Shown(i) /\ states[i].editMode /\ ~focus
BeanOf(i) == states[i].bean

-----------------------------------------------------------------------------
(* What the handlers share                                                 *)

\* renderMultipleInputField gives a bean in edit mode a first, empty value.
Filled(fields, ss) ==
  [b \in Bean |->
     IF fields[b].multi = Undefined /\ \E i \in DOMAIN ss : ss[i].bean = b /\ ss[i].editMode
     THEN [fields[b] EXCEPT !.multi = <<"">>] ELSE fields[b]]

\* render: new elements, with the values of the beans; the list of a waiting
\* search would go to an element that is no longer on the page.
Render(fields, ss) ==
  /\ states' = ss
  /\ val' = Filled(fields, ss)
  /\ initial' = Filled(initial, ss)
  /\ text' = LET shown == {i \in DOMAIN ss : ss[i].select}
             IN IF shown = {} THEN Undefined
                ELSE val'[ss[CHOOSE i \in shown : TRUE].bean].custom
  /\ list' = FALSE
  /\ searches' = [k \in DOMAIN searches |-> [searches[k] EXCEPT !.attached = FALSE]]
  /\ spoiled' = FALSE
  /\ UNCHANGED <<focus, result>>

\* _toggleBean: one tab is selected, the first one if there is no tab i.
ToggleBean(ss, i) ==
  [k \in DOMAIN ss |->
     [ss[k] EXCEPT !.select = (k = IF i \in DOMAIN ss THEN i ELSE 1)]]

\* The values of a multiple input that are not empty, which are all alike here.
Trimmed(multi) == [k \in 1 .. Cardinality({j \in DOMAIN multi : multi[j] # ""}) |-> "text"]

\* validate() gives the number for a good text, and a number as it is.
Validated(x) == IF x = "good" THEN "number" ELSE x

\* A change of a bean that keeps no original.
Slips(b, fields) ==
  slipped' = IF fields # val[b] /\ \E i \in DOMAIN states : BeanOf(i) = b
                                                        /\ states[i].origin = Nobody
             THEN slipped \cup {b} ELSE slipped

Change(b, fields) == val' = [val EXCEPT ![b] = fields]

\* The user enters an input, within the bound.
Count == edits < MaxEdit /\ edits' = edits + 1

-----------------------------------------------------------------------------
\* bindArray with an array of n beans, then render; an empty array is given a
\* bean.  The name of no tab is selected, so the first one is.
Init ==
  \E n \in {k \in 0 .. 2 : k <= MaxBean} :
    /\ array = [i \in 1 .. (IF n = 0 THEN 1 ELSE n) |-> i]
    /\ states = ToggleBean([i \in DOMAIN array |-> NewState(i, FALSE, FALSE)], 0)
    /\ val = [b \in Bean |-> IF b <= n THEN [NewBean EXCEPT !.input = Bound[b],
                                                            !.multi = <<"text">>]
                             ELSE NewBean]
    /\ last = Len(array)
    /\ initial = val
  /\ focus = FALSE /\ text = Undefined /\ list = FALSE /\ result = Undefined
  /\ searches = <<>> /\ dates = <<>>
  /\ edits = 0
  /\ slipped = {} /\ lateClick = {} /\ spoiled = FALSE

OnToggleBean ==
  /\ ~focus
  /\ \E i \in DOMAIN states : Render(val, ToggleBean(states, i))
  /\ UNCHANGED <<array, last, dates, edits, slipped, lateClick>>

OnAddBean ==
  /\ ~focus
  /\ last < MaxBean
  /\ last' = last + 1
  /\ array' = Append(array, last + 1)
  /\ Render(val, ToggleBean(Append(states, NewState(last + 1, TRUE, FALSE)),
                            Len(array) + 1))
  /\ UNCHANGED <<dates, edits, slipped, lateClick>>

\* Bug: the array keeps the beans; only the states are renumbered.
OnDeleteBean_ArrayStays ==
  /\ ~focus
  /\ \E i \in DOMAIN states :
       /\ Shown(i)
       /\ Len(states) > 1
       /\ Render(val, ToggleBean(RemoveAt(states, i), 0))
  /\ UNCHANGED <<array, last, dates, edits, slipped, lateClick>>

\* The other beans are given the names from 0 on.  A new bean follows the last.
OnDeleteBean ==
  /\ ~focus
  /\ \E i \in DOMAIN states :
       /\ Shown(i)
       /\ IF Len(states) > 1
          THEN /\ array' = [k \in 1 .. Len(states) - 1 |-> RemoveAt(states, i)[k].bean]
               /\ Render(val, ToggleBean(RemoveAt(states, i), 0))
               /\ UNCHANGED last
          ELSE /\ last < MaxBean
               /\ last' = last + 1
               /\ array' = <<last + 1>>
               /\ Render(val, ToggleBean(<<NewState(last + 1, TRUE, FALSE)>>, 0))
  /\ UNCHANGED <<dates, edits, slipped, lateClick>>

\* restoreBeanState: a deep copy of the original, which stays the original.
OnRestoreBean ==
  \E i \in DOMAIN states :
    /\ Editing(i)
    /\ Render(IF states[i].origin = Nobody THEN val
              ELSE [val EXCEPT ![BeanOf(i)] = states[i].origin], states)
    /\ UNCHANGED <<array, last, dates, edits, slipped, lateClick>>

OnEditMode ==
  /\ ~focus
  /\ \E i \in DOMAIN states :
       /\ Shown(i) /\ ~states[i].editMode
       /\ Render(val, [states EXCEPT ![i].editMode = TRUE])
  /\ UNCHANGED <<array, last, dates, edits, slipped, lateClick>>

\* OK: empty values are dropped and a good text becomes its number; a bean the
\* validator refuses stays in edit mode.  None of it keeps an original.
OnViewMode ==
  \E i \in DOMAIN states :
    /\ Editing(i)
    /\ LET b == BeanOf(i)
           stored == [val[b] EXCEPT !.multi = Trimmed(@), !.input = Validated(@)]
       IN /\ Slips(b, stored)
          /\ Render([val EXCEPT ![b] = stored],
                    [states EXCEPT ![i].editMode = (stored.input # "number")])
    /\ UNCHANGED <<array, last, dates, edits, lateClick>>

-----------------------------------------------------------------------------
(* Plain and multiple inputs: changes keep the original                     *)

\* The original is what the bean was before the first of these changes.
KeepOrigin(i) ==
  states' = [states EXCEPT ![i].origin = IF @ = Nobody THEN val[BeanOf(i)] ELSE @]

\* The user types and leaves the input (onChangeInput).
OnChangeInput ==
  /\ Count
  /\ \E i \in DOMAIN states :
       /\ Editing(i)
       /\ \/ \E x \in Input \ {val[BeanOf(i)].input} :
               Change(BeanOf(i), [val[BeanOf(i)] EXCEPT !.input = x])
          \/ \E k \in DOMAIN val[BeanOf(i)].multi :
             \E x \in Single \ {val[BeanOf(i)].multi[k]} :
               Change(BeanOf(i), [val[BeanOf(i)] EXCEPT !.multi[k] = x])
       /\ KeepOrigin(i)
  /\ UNCHANGED <<array, last, inputVars, initial, history>>

\* The user leaves the input of a number as it is: 5 != "5" does not hold, so
\* the text takes the place of the number and no original is kept.
OnLeaveNumber ==
  /\ Count
  /\ \E i \in DOMAIN states :
       /\ Editing(i)
       /\ val[BeanOf(i)].input = "number"
       /\ Change(BeanOf(i), [val[BeanOf(i)] EXCEPT !.input = "good"])
       /\ Slips(BeanOf(i), [val[BeanOf(i)] EXCEPT !.input = "good"])
  /\ UNCHANGED <<stateVars, inputVars, initial, lateClick, spoiled>>

\* Bug: the original is kept only by onChangeInput.
OnAddInput_NoOrigin ==
  /\ Count
  /\ \E i \in DOMAIN states :
       /\ Editing(i)
       /\ Len(val[BeanOf(i)].multi) < MaxMulti
       /\ Change(BeanOf(i), [val[BeanOf(i)] EXCEPT !.multi = Append(@, "")])
  /\ UNCHANGED <<stateVars, inputVars, initial, history>>

OnAddInput ==
  /\ Count
  /\ \E i \in DOMAIN states :
       /\ Editing(i)
       /\ Len(val[BeanOf(i)].multi) < MaxMulti
       /\ Change(BeanOf(i), [val[BeanOf(i)] EXCEPT !.multi = Append(@, "")])
       /\ KeepOrigin(i)
  /\ UNCHANGED <<array, last, inputVars, initial, history>>

-----------------------------------------------------------------------------
(* The date picker                                                          *)

OnBlurDatePickerInput ==
  /\ Len(dates) < MaxTimer
  /\ Count
  /\ \E i \in DOMAIN states :
       /\ Editing(i)
       /\ dates' = Append(dates, [bean |-> BeanOf(i), name |-> i])
  /\ UNCHANGED <<stateVars, val, focus, text, list, result, searches, initial, history>>

\* Bug: the bean is looked up by its name when the timer fires.
SetDate_ByName ==
  /\ dates # <<>>
  /\ dates' = Tail(dates)
  /\ \E d \in Date :
       LET name == IF Head(dates).name \in DOMAIN states THEN Head(dates).name ELSE 1
           b == BeanOf(name)
       IN /\ Change(b, [val[b] EXCEPT !.date = d])
          /\ Slips(b, [val[b] EXCEPT !.date = d])
  /\ UNCHANGED <<stateVars, focus, text, list, result, searches, edits, initial,
                 lateClick, spoiled>>

\* The bean was looked up at the blur; it may have been restored, closed,
\* renamed or deleted since.
SetDate ==
  /\ dates # <<>>
  /\ dates' = Tail(dates)
  /\ \E d \in Date, b \in {Head(dates).bean} :
       /\ Change(b, [val[b] EXCEPT !.date = d])
       /\ Slips(b, [val[b] EXCEPT !.date = d])
  /\ UNCHANGED <<stateVars, focus, text, list, result, searches, edits, initial,
                 lateClick, spoiled>>

-----------------------------------------------------------------------------
(* The autocompletion                                                       *)

OnFocusCustomInput ==
  /\ Count
  /\ \E i \in DOMAIN states : Editing(i)
  /\ focus' = TRUE
  /\ UNCHANGED <<stateVars, val, text, list, result, searches, dates, initial, history>>

\* The searches of earlier focuses; that of this one, if it waits, is the last.
Earlier ==
  IF searches # <<>> /\ Last(searches).current THEN Front(searches) ELSE searches

\* onChangeCustomInput: a key was released, whether or not it changed the text.
\* The search of the key before is dropped, not one of an earlier focus.
OnChangeCustomInput ==
  /\ focus
  /\ \E i \in DOMAIN states, term \in Term \cup {Undefined} :
       /\ Shown(i)
       /\ Len(Earlier) <= MaxTimer
       /\ text' = term
       /\ states' = [states EXCEPT ![i].onChange = TRUE]
       /\ IF term = Undefined THEN searches' = Earlier /\ list' = FALSE
          ELSE /\ searches' = Append(Earlier, [term |-> term, attached |-> TRUE,
                                               current |-> TRUE])
               /\ UNCHANGED list
  /\ UNCHANGED <<array, last, val, focus, result, dates, edits, initial, history>>

\* delaySearch, 500 ms after the key.
DelaySearch ==
  /\ searches # <<>>
  /\ searches' = Tail(searches)
  /\ result' = Head(searches).term
  /\ list' = (list \/ Head(searches).attached)
  /\ UNCHANGED <<stateVars, val, focus, text, dates, edits, initial, history>>

\* Bug: the flags are not dropped.
AfterBlur_FlagsStay(i) ==
  /\ states' = states
  /\ searches' = [k \in DOMAIN searches |-> [searches[k] EXCEPT !.current = FALSE]]
  /\ focus' = FALSE /\ list' = FALSE
  /\ lateClick' = lateClick \ {BeanOf(i)}

\* What every blur ends with: the flags and the search filter are dropped, the
\* list is hidden, and searches that wait go on waiting.
AfterBlur(i) ==
  /\ states' = [states EXCEPT ![i].onChange = FALSE, ![i].onSelect = FALSE]
  /\ searches' = [k \in DOMAIN searches |-> [searches[k] EXCEPT !.current = FALSE]]
  /\ focus' = FALSE /\ list' = FALSE
  /\ lateClick' = lateClick \ {BeanOf(i)}

\* The bean's field becomes x and so does the text.
SetCustom(i, x) ==
  /\ Change(BeanOf(i), [val[BeanOf(i)] EXCEPT !.custom = x])
  /\ Slips(BeanOf(i), [val[BeanOf(i)] EXCEPT !.custom = x])
  /\ text' = x

\* Leaving the input: a text for which nothing was selected is erased.  The
\* flag of a click after an earlier blur is taken for a selection.
OnBlurCustomInput ==
  /\ focus
  /\ \E i \in DOMAIN states :
       /\ Shown(i)
       /\ IF states[i].onChange /\ ~states[i].onSelect
          THEN SetCustom(i, Undefined) /\ spoiled' = FALSE
          ELSE /\ spoiled' = (spoiled \/ (states[i].onChange /\ BeanOf(i) \in lateClick))
               /\ UNCHANGED <<val, text, slipped>>
       /\ AfterBlur(i)
  /\ UNCHANGED <<array, last, result, dates, edits, initial>>

\* onSelectCustomInput on the mouse button going down, then the blur.
OnSelectCustomInput ==
  /\ focus /\ list
  /\ \E i \in DOMAIN states :
       /\ Shown(i)
       /\ SetCustom(i, result)
       /\ AfterBlur(i)
  /\ spoiled' = FALSE
  /\ UNCHANGED <<array, last, result, dates, edits, initial>>

\* The list of a late search is shown after the blur, and is clicked; no blur
\* follows.
OnSelectLateInput ==
  /\ list
  /\ \E i \in DOMAIN states :
       /\ Editing(i)
       /\ SetCustom(i, result)
       /\ states' = [states EXCEPT ![i].onSelect = TRUE]
       /\ lateClick' = lateClick \cup {BeanOf(i)}
  /\ list' = FALSE
  /\ spoiled' = FALSE
  /\ UNCHANGED <<array, last, focus, result, searches, dates, edits, initial>>

-----------------------------------------------------------------------------
Next ==
  \/ OnToggleBean \/ OnAddBean \/ OnDeleteBean
  \/ OnRestoreBean \/ OnEditMode \/ OnViewMode
  \/ OnChangeInput \/ OnLeaveNumber \/ OnAddInput
  \/ OnBlurDatePickerInput \/ SetDate
  \/ OnFocusCustomInput \/ OnChangeCustomInput \/ DelaySearch
  \/ OnBlurCustomInput \/ OnSelectCustomInput \/ OnSelectLateInput

Spec == Init /\ [][Next]_vars

-----------------------------------------------------------------------------
(* Properties                                                              *)

\* The tabs are the beans of the array the program was given, in its order,
\* through additions, deletions and the renaming they bring; one is selected.
TabsAreArray ==
  /\ array = [i \in DOMAIN states |-> BeanOf(i)]
  /\ \E i \in DOMAIN states : \A k \in DOMAIN states : states[k].select <=> k = i

\* Restore gives back what was bound: the original that a bean keeps is its
\* initial value, and one that keeps none still has it.  Exempt are beans that
\* the date picker, the autocompletion, OK (the validator's number included) or
\* the blur of an unchanged number changed while they kept no original.
OriginIsInitial ==
  \A i \in DOMAIN states : BeanOf(i) \notin slipped =>
    (IF states[i].origin = Nobody THEN val[BeanOf(i)] ELSE states[i].origin)
      = initial[BeanOf(i)]

\* The user sees the value that the bean has: when the input of an
\* autocompletion has been left, its text is the bean's, selected or erased
\* (unless a list was clicked after an earlier blur).
TextIsValue ==
  ~focus /\ ~spoiled =>
    \A i \in DOMAIN states : Shown(i) => text = val[BeanOf(i)].custom

\* A date goes to the bean in whose tab it was entered, however the tabs were
\* renamed in the meantime; only a restore may change a date as well.
DateReachesItsBean ==
  [][\A b \in Bean : val'[b].date # val[b].date =>
       \/ dates # <<>> /\ dates' = Tail(dates) /\ b = Head(dates).bean
       \/ \E i \in DOMAIN states : BeanOf(i) = b /\ val'[b] = states[i].origin]_vars
=============================================================================
