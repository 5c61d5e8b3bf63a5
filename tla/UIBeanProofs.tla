----------------------------- MODULE UIBeanProofs -----------------------------
(***************************************************************************)
(* The bean editor, for any number of beans, inputs and timers: the tabs   *)
(* are the array's beans, Restore gives back what was bound, the text of   *)
(* the autocompletion is the bean's, and a late date goes to its bean.     *)
(***************************************************************************)
EXTENDS UIBean, SequenceTheorems, FiniteSetTheorems, TLAPS

-----------------------------------------------------------------------------
(* The inductive invariant                                                 *)

StateType ==
  [bean : Bean, editMode : BOOLEAN, select : BOOLEAN, origin : Fields \cup {Nobody},
   onChange : BOOLEAN, onSelect : BOOLEAN]

SearchType == [term : Term, attached : BOOLEAN, current : BOOLEAN]

TypeOK ==
  /\ val \in [Bean -> Fields] /\ initial \in [Bean -> Fields]
  /\ last \in Bean
  /\ result \in Term \cup {Undefined}
  /\ searches \in Seq(SearchType)
  /\ dates \in Seq([bean : Bean, name : Nat])
  /\ \A k \in DOMAIN dates : dates[k].bean <= last

\* The tabs of beans up to the n-th, of which no two have the same bean.
Tabs(ss, n) ==
  /\ ss \in Seq(StateType)
  /\ \A i \in DOMAIN ss : ss[i].bean \in 1 .. n
  /\ \A i, k \in DOMAIN ss : ss[i].bean = ss[k].bean => i = k

OneSelected(ss) == \E i \in DOMAIN ss : \A k \in DOMAIN ss : ss[k].select <=> k = i

\* An original has the value of the multiple input that a bean is given when it
\* is first edited; it, or the bean that has none, is what was bound.
Originals(ss, v, ini, slip) ==
  \A i \in DOMAIN ss :
    /\ ss[i].origin # Nobody => ss[i].origin.multi # Undefined
    /\ ss[i].bean \notin slip =>
         (IF ss[i].origin = Nobody THEN v[ss[i].bean] ELSE ss[i].origin) = ini[ss[i].bean]

\* A bean in edit mode has a value of the multiple input.
EditedHasMulti(ss, v) == \A i \in DOMAIN ss : ss[i].editMode => v[ss[i].bean].multi # Undefined

\* A flag that a click has left behind is known as such.
FlagsAreLate(ss, late) == \A i \in DOMAIN ss : ss[i].onSelect => ss[i].bean \in late

\* A bean that has not been bound yet is what it will be bound with.
NewIsInitial == \A b \in Bean : b > last => val[b] = initial[b]

\* The text is the bean's value until a key is pressed.
TextInv ==
  ~spoiled => \A i \in DOMAIN states :
    states[i].select /\ (~focus \/ ~states[i].onChange) => text = val[states[i].bean].custom

IInv ==
  /\ TypeOK
  /\ Tabs(states, last) /\ OneSelected(states)
  /\ array = [i \in DOMAIN states |-> states[i].bean]
  /\ Originals(states, val, initial, slipped)
  /\ EditedHasMulti(states, val)
  /\ FlagsAreLate(states, lateClick)
  /\ NewIsInitial
  /\ TextInv

-----------------------------------------------------------------------------
(* Tabs                                                                    *)

\* The fields of a bean are a record, and neither constant is one of its parts.
LEMMA FieldsFacts ==
  /\ Undefined \notin Seq(Single) /\ Nobody \notin Fields
  /\ \A r \in Fields : /\ r.multi \in Seq(Single) \cup {Undefined}
                       /\ r.custom \in Term \cup {Undefined}
                       /\ r.input \in Plain \cup {Undefined}
                       /\ r.date \in Date \cup {Undefined}
BY BeanAssumption DEF Fields

\* Tabs that differ in the selection only.
SelectionAside(ts, ss) ==
  /\ DOMAIN ts = DOMAIN ss
  /\ \A k \in DOMAIN ss :
       /\ ts[k].bean = ss[k].bean /\ ts[k].origin = ss[k].origin
       /\ ts[k].editMode = ss[k].editMode
       /\ ts[k].onChange = ss[k].onChange /\ ts[k].onSelect = ss[k].onSelect

\* A selection of a tab changes nothing else.
LEMMA ToggleFacts ==
  ASSUME NEW n, NEW ss, Tabs(ss, n), ss # <<>>, NEW i \in Nat, NEW ts, ts = ToggleBean(ss, i)
  PROVE  Tabs(ts, n) /\ OneSelected(ts) /\ SelectionAside(ts, ss)
<1>1. PICK len \in Nat : len = Len(ss) /\ DOMAIN ss = 1 .. len /\ len # 0
  <2>1. ss \in Seq(StateType)
    BY DEF Tabs
  <2> QED
    BY <2>1, LenProperties, EmptySeq
<1>2. PICK at : at = IF i \in DOMAIN ss THEN i ELSE 1
  OBVIOUS
<1>3. at \in DOMAIN ss
  BY <1>1, <1>2
<1>4. ts = [k \in DOMAIN ss |-> [ss[k] EXCEPT !.select = (k = at)]]
  BY <1>2 DEF ToggleBean
<1>5. \A k \in DOMAIN ss : ss[k] \in StateType
  <2>1. ss \in Seq(StateType)
    BY DEF Tabs
  <2> QED
    BY <1>1, <2>1, ElementOfSeq
<1>6. \A k \in DOMAIN ss : /\ ts[k] \in StateType
                           /\ ts[k].bean = ss[k].bean /\ ts[k].origin = ss[k].origin
                           /\ ts[k].editMode = ss[k].editMode
                           /\ ts[k].onChange = ss[k].onChange /\ ts[k].onSelect = ss[k].onSelect
                           /\ ts[k].select = (k = at)
  <2>1. ASSUME NEW s \in StateType, NEW x \in BOOLEAN, NEW t, t = [s EXCEPT !.select = x]
        PROVE  /\ t \in StateType /\ t.select = x
               /\ t.bean = s.bean /\ t.origin = s.origin /\ t.editMode = s.editMode
               /\ t.onChange = s.onChange /\ t.onSelect = s.onSelect
    BY <2>1 DEF StateType
  <2> SUFFICES ASSUME NEW k \in DOMAIN ss
               PROVE  /\ ts[k] \in StateType
                      /\ ts[k].bean = ss[k].bean /\ ts[k].origin = ss[k].origin
                      /\ ts[k].editMode = ss[k].editMode
                      /\ ts[k].onChange = ss[k].onChange /\ ts[k].onSelect = ss[k].onSelect
                      /\ ts[k].select = (k = at)
    OBVIOUS
  <2>2. PICK x \in BOOLEAN : x = (k = at)
    OBVIOUS
  <2>3. PICK s \in StateType : s = ss[k]
    BY <1>5
  <2>4. PICK t : t = ts[k]
    OBVIOUS
  <2>5. t = [s EXCEPT !.select = x]
    BY <1>4, <2>2, <2>3, <2>4
  <2>6. /\ t \in StateType /\ t.select = x
        /\ t.bean = s.bean /\ t.origin = s.origin /\ t.editMode = s.editMode
        /\ t.onChange = s.onChange /\ t.onSelect = s.onSelect
    BY <2>1, <2>5
  <2> QED
    BY <2>2, <2>3, <2>4, <2>6, Zenon
<1>7. DOMAIN ts = DOMAIN ss /\ ts \in Seq(StateType)
  <2>1. ts \in [1 .. len -> StateType]
    BY <1>1, <1>4, <1>6
  <2> QED
    BY <1>1, <2>1
<1>8. OneSelected(ts)
  <2>1. \A k \in DOMAIN ts : ts[k].select <=> k = at
    BY <1>6, <1>7
  <2>2. at \in DOMAIN ts
    BY <1>3, <1>7
  <2> QED
    BY <2>1, <2>2, Zenon DEF OneSelected
<1>9. Tabs(ts, n)
  BY <1>6, <1>7 DEF Tabs
<1> QED
  BY <1>6, <1>7, <1>8, <1>9 DEF SelectionAside

\* A tab for the next bean is added at the end.
LEMMA AppendFacts ==
  ASSUME NEW n \in Nat, NEW ss, Tabs(ss, n), NEW s \in StateType, s.bean = n + 1
  PROVE  /\ Tabs(Append(ss, s), n + 1) /\ Append(ss, s) # <<>>
         /\ Len(Append(ss, s)) = Len(ss) + 1
         /\ Append(ss, s)[Len(ss) + 1] = s
         /\ \A k \in DOMAIN ss : Append(ss, s)[k] = ss[k]
<1>1. PICK len \in Nat : len = Len(ss) /\ DOMAIN ss = 1 .. len /\ ss \in Seq(StateType)
  BY LenProperties DEF Tabs
<1>2. PICK ts : ts = Append(ss, s)
  OBVIOUS
<1>3. /\ ts \in Seq(StateType) /\ Len(ts) = len + 1 /\ ts[len + 1] = s
      /\ \A k \in 1 .. len : ts[k] = ss[k]
  BY <1>1, <1>2, AppendProperties
<1>4. DOMAIN ts = 1 .. len + 1
  BY <1>3, LenProperties
<1>5. \A k \in 1 .. len + 1 : k \in 1 .. len \/ k = len + 1
  OBVIOUS
<1>6. \A k \in 1 .. len : ss[k].bean \in 1 .. n
  BY <1>1 DEF Tabs
<1>7. \A k \in DOMAIN ts : ts[k].bean \in 1 .. n + 1
  BY <1>3, <1>4, <1>5, <1>6
<1>8. ASSUME NEW i \in DOMAIN ts, NEW k \in DOMAIN ts, ts[i].bean = ts[k].bean PROVE i = k
  <2>1. n + 1 \notin 1 .. n
    OBVIOUS
  <2>2. CASE i \in 1 .. len /\ k \in 1 .. len
    BY <1>1, <1>3, <1>8, <2>2 DEF Tabs
  <2>3. CASE i = len + 1 /\ k \in 1 .. len
    BY <1>3, <1>6, <1>8, <2>1, <2>3
  <2>4. CASE i \in 1 .. len /\ k = len + 1
    BY <1>3, <1>6, <1>8, <2>1, <2>4
  <2> QED
    BY <1>4, <1>5, <2>2, <2>3, <2>4
<1>9. Tabs(ts, n + 1)
  BY <1>3, <1>7, <1>8 DEF Tabs
<1>10. ts # <<>>
  BY <1>3, EmptySeq
<1> QED
  BY <1>1, <1>2, <1>3, <1>9, <1>10

\* A tab is taken out.
LEMMA RemoveFacts ==
  ASSUME NEW n, NEW ss, Tabs(ss, n), NEW i \in DOMAIN ss, NEW rs, rs = RemoveAt(ss, i)
  PROVE  /\ Tabs(rs, n) /\ Len(rs) = Len(ss) - 1 /\ DOMAIN rs = 1 .. Len(ss) - 1
         /\ \A k \in DOMAIN rs : \E j \in DOMAIN ss : rs[k] = ss[j]
<1>1. PICK len \in Nat : len = Len(ss) /\ DOMAIN ss = 1 .. len /\ ss \in Seq(StateType)
  BY LenProperties DEF Tabs
<1>2. i \in 1 .. len /\ \A k \in 1 .. len : ss[k] \in StateType
  BY <1>1, ElementOfSeq
<1>3. PICK low : low = SubSeq(ss, 1, i - 1)
  OBVIOUS
<1>4. PICK high : high = SubSeq(ss, i + 1, len)
  OBVIOUS
<1>5. low \in Seq(StateType) /\ Len(low) = i - 1 /\ \A k \in 1 .. i - 1 : low[k] = ss[k]
  <2>1. \A k \in 1 .. i - 1 : ss[k] \in StateType
    BY <1>2
  <2>2. i - 1 \in Int /\ 1 \in Int
    BY <1>2
  <2>3. /\ low \in Seq(StateType) /\ Len(low) = IF 1 <= i - 1 THEN i - 1 - 1 + 1 ELSE 0
        /\ \A k \in 1 .. i - 1 - 1 + 1 : low[k] = ss[1 + k - 1]
    BY <1>3, <2>1, <2>2, SubSeqProperties
  <2>4. i - 1 - 1 + 1 = i - 1 /\ \A k \in 1 .. i - 1 : 1 + k - 1 = k
    BY <1>2
  <2>5. Len(low) = i - 1
    BY <1>2, <2>3, <2>4
  <2> QED
    BY <2>3, <2>4, <2>5
<1>6. /\ high \in Seq(StateType) /\ Len(high) = len - i
      /\ \A k \in 1 .. len - i : high[k] = ss[i + k]
  <2>1. \A k \in i + 1 .. len : ss[k] \in StateType
    BY <1>2
  <2>2. i + 1 \in Int /\ len \in Int
    BY <1>2
  <2>3. /\ high \in Seq(StateType)
        /\ Len(high) = IF i + 1 <= len THEN len - (i + 1) + 1 ELSE 0
        /\ \A k \in 1 .. len - (i + 1) + 1 : high[k] = ss[i + 1 + k - 1]
    BY <1>4, <2>1, <2>2, SubSeqProperties
  <2>4. len - (i + 1) + 1 = len - i /\ \A k \in 1 .. len - i : i + 1 + k - 1 = i + k
    BY <1>2
  <2>5. Len(high) = len - i
    BY <1>2, <2>3, <2>4
  <2> QED
    BY <2>3, <2>4, <2>5
<1>7. rs = low \o high
  BY <1>1, <1>3, <1>4 DEF RemoveAt
<1>8. /\ rs \in Seq(StateType) /\ Len(rs) = len - 1
      /\ \A k \in 1 .. len - 1 : rs[k] = IF k <= i - 1 THEN low[k] ELSE high[k - (i - 1)]
  <2>1. /\ low \o high \in Seq(StateType) /\ Len(low \o high) = Len(low) + Len(high)
        /\ \A k \in 1 .. Len(low) + Len(high) :
             (low \o high)[k] = IF k <= Len(low) THEN low[k] ELSE high[k - Len(low)]
    BY <1>5, <1>6, ConcatProperties
  <2>2. Len(low) + Len(high) = len - 1
    BY <1>2, <1>5, <1>6
  <2> QED
    BY <1>5, <1>7, <2>1, <2>2
<1>9. DOMAIN rs = 1 .. len - 1
  BY <1>8, LenProperties
<1> DEFINE place(k) == IF k <= i - 1 THEN k ELSE k + 1
<1>10. \A k \in 1 .. len - 1 : place(k) \in 1 .. len /\ rs[k] = ss[place(k)]
  <2> SUFFICES ASSUME NEW k \in 1 .. len - 1 PROVE place(k) \in 1 .. len /\ rs[k] = ss[place(k)]
    OBVIOUS
  <2>1. CASE k <= i - 1
    BY <1>2, <1>5, <1>8, <2>1
  <2>2. CASE ~ (k <= i - 1)
    <3>1. k - (i - 1) \in 1 .. len - i /\ i + (k - (i - 1)) = k + 1
      BY <1>2, <2>2
    <3> QED
      BY <1>2, <1>6, <1>8, <2>2, <3>1
  <2> QED
    BY <2>1, <2>2
<1>11. \A k, j \in 1 .. len - 1 : place(k) = place(j) => k = j
  BY <1>2
<1> HIDE DEF place
<1>12. Tabs(rs, n)
  <2>1. \A k \in DOMAIN rs : rs[k].bean \in 1 .. n
    BY <1>1, <1>9, <1>10 DEF Tabs
  <2>2. ASSUME NEW k \in DOMAIN rs, NEW j \in DOMAIN rs, rs[k].bean = rs[j].bean
        PROVE  k = j
    <3>1. ss[place(k)].bean = ss[place(j)].bean
      BY <1>9, <1>10, <2>2
    <3>2. place(k) \in DOMAIN ss /\ place(j) \in DOMAIN ss
      BY <1>1, <1>9, <1>10
    <3>3. place(k) = place(j)
      BY <3>1, <3>2 DEF Tabs
    <3> QED
      BY <1>9, <1>11, <3>3
  <2> QED
    BY <1>8, <2>1, <2>2 DEF Tabs
<1> QED
  BY <1>1, <1>8, <1>9, <1>10, <1>12

\* A function with another value in one place.
Put(f, i, x) == [f EXCEPT ![i] = x]

\* A change of a tab that leaves its bean.
LEMMA ExceptFacts ==
  ASSUME NEW n, NEW ss, Tabs(ss, n), NEW i \in DOMAIN ss, NEW s \in StateType,
         s.bean = ss[i].bean, NEW ts, ts = Put(ss, i, s)
  PROVE  /\ Tabs(ts, n) /\ DOMAIN ts = DOMAIN ss /\ ts[i] = s
         /\ \A k \in DOMAIN ss : ts[k].bean = ss[k].bean
         /\ \A k \in DOMAIN ss : k # i => ts[k] = ss[k]
         /\ s.select = ss[i].select /\ OneSelected(ss) => OneSelected(ts)
<1>1. ss \in Seq(StateType) /\ DOMAIN ss = 1 .. Len(ss) /\ Len(ss) \in Nat
  BY LenProperties DEF Tabs
<1>2. ts \in Seq(StateType)
  BY <1>1, ExceptSeq DEF Put
<1>3. /\ DOMAIN ts = DOMAIN ss /\ ts[i] = s
      /\ \A k \in DOMAIN ss : k # i => ts[k] = ss[k]
  BY <1>1 DEF Put
<1>4. \A k \in DOMAIN ss : ts[k].bean = ss[k].bean
  BY <1>3
<1>5. Tabs(ts, n)
  BY <1>2, <1>3, <1>4 DEF Tabs
<1>6. s.select = ss[i].select /\ OneSelected(ss) => OneSelected(ts)
  BY <1>3 DEF OneSelected
<1> QED
  BY <1>3, <1>4, <1>5, <1>6

-----------------------------------------------------------------------------
(* What the handlers share                                                 *)

\* A bean in edit mode is given a value of the multiple input, once.
LEMMA FilledFacts ==
  ASSUME NEW fields \in [Bean -> Fields], NEW ss, NEW v, v = Filled(fields, ss)
  PROVE  /\ v \in [Bean -> Fields]
         /\ \A b \in Bean : fields[b].multi # Undefined => v[b] = fields[b]
         /\ \A b \in Bean : v[b].date = fields[b].date
         /\ \A i \in DOMAIN ss : ss[i].bean \in Bean /\ ss[i].editMode =>
              v[ss[i].bean].multi # Undefined
<1>1. <<"">> \in Seq(Single) /\ <<"">> # Undefined
  <2>1. <<"">> \in Seq(Single)
    BY DEF Single
  <2> QED
    BY <2>1, FieldsFacts
<1>2. v = [b \in Bean |->
             IF fields[b].multi = Undefined /\ \E i \in DOMAIN ss : ss[i].bean = b /\ ss[i].editMode
             THEN [fields[b] EXCEPT !.multi = <<"">>] ELSE fields[b]]
  BY DEF Filled
<1>3. ASSUME NEW b \in Bean
      PROVE  LET r == [fields[b] EXCEPT !.multi = <<"">>]
             IN r \in Fields /\ r.multi = <<"">> /\ r.date = fields[b].date
  BY <1>1 DEF Fields
<1>4. v \in [Bean -> Fields]
  <2>1. \A b \in Bean : [fields[b] EXCEPT !.multi = <<"">>] \in Fields
    BY <1>3
  <2>2. \A b \in Bean : (IF fields[b].multi = Undefined
                            /\ \E i \in DOMAIN ss : ss[i].bean = b /\ ss[i].editMode
                         THEN [fields[b] EXCEPT !.multi = <<"">>] ELSE fields[b]) \in Fields
    BY <2>1
  <2> QED
    BY <1>2, <2>2
<1>5. \A b \in Bean : fields[b].multi # Undefined => v[b] = fields[b]
  BY <1>2
<1>6. \A b \in Bean : v[b].date = fields[b].date
  BY <1>2, <1>3
<1>7. ASSUME NEW i \in DOMAIN ss, ss[i].bean \in Bean, ss[i].editMode
      PROVE  v[ss[i].bean].multi # Undefined
  <2>1. PICK b \in Bean : b = ss[i].bean
    BY <1>7
  <2>2. CASE fields[b].multi = Undefined
    BY <1>1, <1>2, <1>3, <1>7, <2>1, <2>2
  <2>3. CASE fields[b].multi # Undefined
    BY <1>5, <2>1, <2>3
  <2> QED
    BY <2>2, <2>3
<1> QED
  BY <1>4, <1>5, <1>6, <1>7

\* What render() leaves of the beans, the originals and the text.
LEMMA RenderFacts ==
  ASSUME NEW n \in Bean, NEW ss, Tabs(ss, n), OneSelected(ss), searches \in Seq(SearchType),
         NEW fields \in [Bean -> Fields], initial \in [Bean -> Fields],
         NEW slip, Originals(ss, fields, initial, slip), Render(fields, ss)
  PROVE  /\ val' \in [Bean -> Fields] /\ initial' \in [Bean -> Fields]
         /\ states' = ss /\ result' = result /\ searches' \in Seq(SearchType)
         /\ Originals(ss, val', initial', slip) /\ EditedHasMulti(ss, val')
         /\ \A i \in DOMAIN ss : ss[i].select => text' = val'[ss[i].bean].custom
         /\ \A b \in Bean : fields[b] = initial[b] => val'[b] = initial'[b]
<1>1. /\ states' = ss /\ result' = result
      /\ val' = Filled(fields, ss) /\ initial' = Filled(initial, ss)
  BY DEF Render
<1>2. /\ val' \in [Bean -> Fields]
      /\ \A i \in DOMAIN ss : ss[i].bean \in Bean /\ ss[i].editMode =>
           val'[ss[i].bean].multi # Undefined
  BY <1>1, FilledFacts
<1>3. /\ initial' \in [Bean -> Fields]
      /\ \A b \in Bean : initial[b].multi # Undefined => initial'[b] = initial[b]
  BY <1>1, FilledFacts
<1>4. \A b \in Bean : fields[b] = initial[b] => val'[b] = initial'[b]
  <2> SUFFICES ASSUME NEW b \in Bean, fields[b] = initial[b] PROVE val'[b] = initial'[b]
    OBVIOUS
  <2>1. Filled(fields, ss)[b] = Filled(initial, ss)[b]
    BY DEF Filled
  <2> QED
    BY <1>1, <2>1
<1>5. \A i \in DOMAIN ss : ss[i].bean \in Bean
  <2>1. 1 .. n \subseteq Bean
    BY BeanAssumption DEF Bean
  <2> QED
    BY <2>1 DEF Tabs
<1>6. EditedHasMulti(ss, val')
  BY <1>2, <1>5 DEF EditedHasMulti
<1>7. Originals(ss, val', initial', slip)
  <2> SUFFICES ASSUME NEW i \in DOMAIN ss, ss[i].bean \notin slip
               PROVE  (IF ss[i].origin = Nobody THEN val'[ss[i].bean] ELSE ss[i].origin)
                        = initial'[ss[i].bean]
    BY DEF Originals
  <2>1. PICK b \in Bean : b = ss[i].bean
    BY <1>5
  <2>2. CASE ss[i].origin = Nobody
    <3>1. fields[b] = initial[b]
      BY <2>1, <2>2 DEF Originals
    <3> QED
      BY <1>4, <2>1, <2>2, <3>1
  <2>3. CASE ss[i].origin # Nobody
    <3>1. ss[i].origin = initial[b] /\ initial[b].multi # Undefined
      BY <2>1, <2>3 DEF Originals
    <3> QED
      BY <1>3, <2>1, <2>3, <3>1
  <2> QED
    BY <2>2, <2>3
<1>8. \A i \in DOMAIN ss : ss[i].select => text' = val'[ss[i].bean].custom
  <2>1. PICK at \in DOMAIN ss : \A k \in DOMAIN ss : ss[k].select <=> k = at
    BY DEF OneSelected
  <2>2. PICK chosen : chosen = {k \in DOMAIN ss : ss[k].select}
    OBVIOUS
  <2>3. chosen = {at}
    BY <2>1, <2>2
  <2>4. text' = IF chosen = {} THEN Undefined ELSE val'[ss[CHOOSE k \in chosen : TRUE].bean].custom
    BY <2>2 DEF Render
  <2>5. (CHOOSE k \in chosen : TRUE) = at
    BY <2>3
  <2>6. text' = val'[ss[at].bean].custom
    BY <2>3, <2>4, <2>5
  <2> QED
    BY <2>1, <2>6
<1>9. searches' \in Seq(SearchType)
  <2>1. searches' = [k \in DOMAIN searches |-> [searches[k] EXCEPT !.attached = FALSE]]
    BY DEF Render
  <2>2. PICK len \in Nat : len = Len(searches) /\ DOMAIN searches = 1 .. len
    BY LenProperties
  <2>3. \A k \in 1 .. len : searches[k] \in SearchType
    BY <2>2, ElementOfSeq
  <2>4. \A s \in SearchType : [s EXCEPT !.attached = FALSE] \in SearchType
    BY DEF SearchType
  <2>5. searches' \in [1 .. len -> SearchType]
    BY <2>1, <2>2, <2>3, <2>4
  <2> QED
    BY <2>2, <2>5
<1> QED
  BY <1>1, <1>2, <1>3, <1>4, <1>6, <1>7, <1>8, <1>9

\* A handler that ends with render().
LEMMA RenderStep ==
  ASSUME IInv, last' \in Bean, last <= last', dates' = dates,
         NEW ss, Tabs(ss, last'), OneSelected(ss), array' = [i \in DOMAIN ss |-> ss[i].bean],
         NEW fields \in [Bean -> Fields], Originals(ss, fields, initial, slipped'),
         FlagsAreLate(ss, lateClick'), \A b \in Bean : b > last' => fields[b] = initial[b],
         Render(fields, ss)
  PROVE  IInv'
<1>1. PICK n \in Bean : n = last'
  OBVIOUS
<1>2. PICK slip : slip = slipped'
  OBVIOUS
<1>3. TypeOK
  BY DEF IInv
<1>4. /\ val' \in [Bean -> Fields] /\ initial' \in [Bean -> Fields]
      /\ states' = ss /\ result' = result /\ searches' \in Seq(SearchType)
      /\ Originals(ss, val', initial', slip) /\ EditedHasMulti(ss, val')
      /\ \A i \in DOMAIN ss : ss[i].select => text' = val'[ss[i].bean].custom
      /\ \A b \in Bean : fields[b] = initial[b] => val'[b] = initial'[b]
  BY <1>1, <1>2, <1>3, RenderFacts DEF TypeOK
<1>5. TypeOK'
  <2>1. last \in Int /\ \A k \in DOMAIN dates : dates[k].bean <= last'
    <3>1. Bean \subseteq Int /\ last \in Int
      BY <1>3 DEF TypeOK, Bean
    <3>2. \A k \in DOMAIN dates : dates[k].bean \in Int /\ dates[k].bean <= last
      <4>1. \A k \in DOMAIN dates : dates[k] \in [bean : Bean, name : Nat]
        BY <1>3, LenProperties, ElementOfSeq DEF TypeOK
      <4> QED
        BY <1>3, <3>1, <4>1 DEF TypeOK
    <3> QED
      BY <1>1, <3>1, <3>2
  <2> QED
    BY <1>3, <1>4, <2>1 DEF TypeOK
<1>6. NewIsInitial'
  BY <1>4 DEF NewIsInitial
<1>7. TextInv'
  BY <1>4 DEF TextInv
<1>8. Originals(states', val', initial', slipped') /\ EditedHasMulti(states', val')
  BY <1>2, <1>4
<1>9. Tabs(states', last') /\ OneSelected(states') /\ FlagsAreLate(states', lateClick')
  BY <1>4
<1>10. array' = [i \in DOMAIN states' |-> states'[i].bean]
  BY <1>4
<1> QED
  BY <1>5, <1>6, <1>7, <1>8, <1>9, <1>10 DEF IInv

\* Tabs that are some of other tabs, or differ from them in the selection only.
LEMMA CarryTabs ==
  ASSUME NEW ss, NEW ts, NEW v, NEW ini, NEW slip, NEW late,
         Originals(ss, v, ini, slip), FlagsAreLate(ss, late),
         \A k \in DOMAIN ts : \E j \in DOMAIN ss :
           ts[k].bean = ss[j].bean /\ ts[k].origin = ss[j].origin /\ ts[k].onSelect = ss[j].onSelect
  PROVE  Originals(ts, v, ini, slip) /\ FlagsAreLate(ts, late)
<1>1. Originals(ts, v, ini, slip)
  <2> SUFFICES ASSUME NEW k \in DOMAIN ts
               PROVE  /\ ts[k].origin # Nobody => ts[k].origin.multi # Undefined
                      /\ ts[k].bean \notin slip =>
                           (IF ts[k].origin = Nobody THEN v[ts[k].bean] ELSE ts[k].origin)
                             = ini[ts[k].bean]
    BY DEF Originals
  <2>1. PICK j \in DOMAIN ss : ts[k].bean = ss[j].bean /\ ts[k].origin = ss[j].origin
    OBVIOUS
  <2> QED
    BY <2>1 DEF Originals
<1>2. FlagsAreLate(ts, late)
  <2> SUFFICES ASSUME NEW k \in DOMAIN ts, ts[k].onSelect PROVE ts[k].bean \in late
    BY DEF FlagsAreLate
  <2>1. PICK j \in DOMAIN ss : ts[k].bean = ss[j].bean /\ ts[k].onSelect = ss[j].onSelect
    OBVIOUS
  <2> QED
    BY <2>1 DEF FlagsAreLate
<1> QED
  BY <1>1, <1>2

\* A change of a bean that may keep no original of it.
LEMMA ChangeFacts ==
  ASSUME IInv, NEW b \in Bean, b <= last, NEW r \in Fields, r.multi # Undefined \/ r.multi = val[b].multi,
         NEW v, v = Put(val, b, r), Slips(b, r)
  PROVE  /\ v \in [Bean -> Fields] /\ v[b] = r /\ \A c \in Bean \ {b} : v[c] = val[c]
         /\ Originals(states, v, initial, slipped')
         /\ EditedHasMulti(states, v)
         /\ \A c \in Bean : c > last => v[c] = initial[c]
<1>1. val \in [Bean -> Fields] /\ last \in Bean
  BY DEF IInv, TypeOK
<1>2. v \in [Bean -> Fields] /\ v[b] = r /\ \A c \in Bean \ {b} : v[c] = val[c]
  BY <1>1 DEF Put
<1>3. \A i \in DOMAIN states : states[i].bean \in Bean
  <2>1. 1 .. last \subseteq Bean
    BY <1>1, BeanAssumption DEF Bean
  <2> QED
    BY <2>1 DEF IInv, Tabs
<1>4. Originals(states, v, initial, slipped')
  <2>1. PICK slip : slip = slipped'
    OBVIOUS
  <2>2. /\ slipped \subseteq slip
        /\ r # val[b] => \A i \in DOMAIN states :
             states[i].bean = b /\ states[i].origin = Nobody => b \in slip
    BY <2>1 DEF Slips, BeanOf
  <2> SUFFICES ASSUME NEW i \in DOMAIN states, states[i].bean \notin slip
               PROVE  (IF states[i].origin = Nobody THEN v[states[i].bean] ELSE states[i].origin)
                        = initial[states[i].bean]
    BY <2>1 DEF Originals, IInv
  <2>3. (IF states[i].origin = Nobody THEN val[states[i].bean] ELSE states[i].origin)
          = initial[states[i].bean]
    BY <2>2 DEF IInv, Originals
  <2>4. states[i].origin = Nobody => v[states[i].bean] = val[states[i].bean]
    BY <1>2, <1>3, <2>2
  <2> QED
    BY <2>3, <2>4
<1>5. EditedHasMulti(states, v)
  BY <1>2, <1>3 DEF IInv, EditedHasMulti
<1>6. \A c \in Bean : c > last => v[c] = initial[c]
  <2>1. \A c \in Bean : c > last => c # b
    BY <1>1 DEF Bean
  <2> QED
    BY <1>2, <2>1 DEF IInv, NewIsInitial
<1> QED
  BY <1>2, <1>4, <1>5, <1>6

-----------------------------------------------------------------------------
(* The steps that end with render()                                        *)

\* The tabs of the invariant are there, and the last bean is the array's.
LEMMA TabsFacts ==
  ASSUME IInv
  PROVE  /\ states \in Seq(StateType) /\ states # <<>> /\ Len(states) \in Nat
         /\ DOMAIN states = 1 .. Len(states) /\ Len(array) = Len(states)
         /\ \A i \in DOMAIN states : /\ states[i] \in StateType
                                     /\ states[i].bean \in Bean /\ states[i].bean <= last
         /\ last \in Nat /\ last \in Bean /\ 1 .. last \subseteq Bean
         /\ array \in Seq(Bean) /\ \A i \in DOMAIN states : array[i] = states[i].bean
<1>1. states \in Seq(StateType) /\ OneSelected(states) /\ last \in Bean
  BY DEF IInv, Tabs, TypeOK
<1>2. PICK len \in Nat : len = Len(states) /\ DOMAIN states = 1 .. len
  BY <1>1, LenProperties
<1>3. states # <<>>
  <2>1. PICK i \in 1 .. len : TRUE
    BY <1>1, <1>2 DEF OneSelected
  <2> QED
    BY <1>2, <2>1, EmptySeq
<1>4. last \in Nat /\ 1 .. last \subseteq Bean
  BY <1>1, BeanAssumption DEF Bean
<1>5. \A i \in DOMAIN states : /\ states[i] \in StateType
                               /\ states[i].bean \in Bean /\ states[i].bean <= last
  <2>1. \A i \in DOMAIN states : states[i].bean \in 1 .. last
    BY DEF IInv, Tabs
  <2>2. \A x \in 1 .. last : x \in Bean /\ x <= last
    BY <1>4
  <2> QED
    BY <1>1, <1>2, <2>1, <2>2, ElementOfSeq
<1>6. array = [i \in 1 .. len |-> states[i].bean]
  BY <1>2 DEF IInv
<1>7. array \in [1 .. len -> Bean]
  BY <1>2, <1>5, <1>6
<1>8. array \in Seq(Bean) /\ Len(array) = len
  BY <1>2, <1>7
<1> QED
  BY <1>1, <1>2, <1>3, <1>4, <1>5, <1>6, <1>8

\* Another tab is selected.
LEMMA OnToggleBeanInv == IInv /\ OnToggleBean => IInv'
<1> SUFFICES ASSUME IInv, OnToggleBean PROVE IInv'
  OBVIOUS
<1>1. PICK i \in DOMAIN states : Render(val, ToggleBean(states, i))
  BY DEF OnToggleBean
<1>2. /\ array' = array /\ last' = last /\ dates' = dates
      /\ slipped' = slipped /\ lateClick' = lateClick
  BY DEF OnToggleBean
<1>3. i \in Nat /\ states # <<>> /\ last \in Bean
  BY TabsFacts
<1>4. PICK ss : ss = ToggleBean(states, i)
  OBVIOUS
<1>5. Tabs(ss, last) /\ OneSelected(ss) /\ SelectionAside(ss, states)
  <2>1. Tabs(states, last)
    BY DEF IInv
  <2> QED
    BY <1>3, <1>4, <2>1, ToggleFacts
<1>6. Originals(ss, val, initial, slipped) /\ FlagsAreLate(ss, lateClick)
  BY <1>5, CarryTabs DEF IInv, SelectionAside
<1>7. array' = [k \in DOMAIN ss |-> ss[k].bean]
  BY <1>2, <1>5 DEF IInv, SelectionAside
<1>8. val \in [Bean -> Fields] /\ \A b \in Bean : b > last => val[b] = initial[b]
  BY DEF IInv, TypeOK, NewIsInitial
<1>9. last <= last
  BY TabsFacts
<1> QED
  BY <1>1, <1>2, <1>3, <1>4, <1>5, <1>6, <1>7, <1>8, <1>9, RenderStep

\* A tab that has just been made.
LEMMA NewStateFacts ==
  ASSUME NEW b \in Bean, NEW s, s = NewState(b, TRUE, FALSE)
  PROVE  s \in StateType /\ s.bean = b /\ s.origin = Nobody /\ ~s.onSelect
BY DEF NewState, StateType

\* A new bean has no original and is as it will be bound.
LEMMA NewTab ==
  ASSUME NEW ss, NEW v, NEW ini, NEW slip, NEW late, NEW b, v[b] = ini[b],
         NEW ts,
         \A k \in DOMAIN ts :
           \/ ts[k].bean = b /\ ts[k].origin = Nobody /\ ~ts[k].onSelect
           \/ \E j \in DOMAIN ss : /\ ts[k].bean = ss[j].bean /\ ts[k].origin = ss[j].origin
                                   /\ ts[k].onSelect = ss[j].onSelect,
         Originals(ss, v, ini, slip), FlagsAreLate(ss, late)
  PROVE  Originals(ts, v, ini, slip) /\ FlagsAreLate(ts, late)
<1>1. Originals(ts, v, ini, slip)
  <2> SUFFICES ASSUME NEW k \in DOMAIN ts
               PROVE  /\ ts[k].origin # Nobody => ts[k].origin.multi # Undefined
                      /\ ts[k].bean \notin slip =>
                           (IF ts[k].origin = Nobody THEN v[ts[k].bean] ELSE ts[k].origin)
                             = ini[ts[k].bean]
    BY DEF Originals
  <2>1. CASE ts[k].bean = b /\ ts[k].origin = Nobody
    BY <2>1
  <2>2. CASE \E j \in DOMAIN ss : ts[k].bean = ss[j].bean /\ ts[k].origin = ss[j].origin
    BY <2>2 DEF Originals
  <2> QED
    BY <2>1, <2>2
<1>2. FlagsAreLate(ts, late)
  <2> SUFFICES ASSUME NEW k \in DOMAIN ts, ts[k].onSelect PROVE ts[k].bean \in late
    BY DEF FlagsAreLate
  <2>1. PICK j \in DOMAIN ss : ts[k].bean = ss[j].bean /\ ts[k].onSelect = ss[j].onSelect
    OBVIOUS
  <2> QED
    BY <2>1 DEF FlagsAreLate
<1> QED
  BY <1>1, <1>2

\* A bean is added, at the end of the array and of the tabs.
LEMMA OnAddBeanInv == IInv /\ OnAddBean => IInv'
<1> SUFFICES ASSUME IInv, OnAddBean PROVE IInv'
  OBVIOUS
<1>1. /\ last < MaxBean /\ last' = last + 1 /\ array' = Append(array, last + 1)
      /\ dates' = dates /\ slipped' = slipped /\ lateClick' = lateClick
  BY DEF OnAddBean
<1>2. PICK b : b = last + 1
  OBVIOUS
<1>3. /\ last \in Nat /\ b \in Bean /\ b > last /\ last' \in Bean /\ last <= last'
      /\ \A c \in Bean : c > last' => c > last
  <2>1. last \in Nat /\ MaxBean \in Nat
    BY TabsFacts, BeanAssumption
  <2> QED
    BY <1>1, <1>2, <2>1 DEF Bean
<1>4. PICK s : s = NewState(b, TRUE, FALSE)
  OBVIOUS
<1>5. s \in StateType /\ s.bean = b /\ s.origin = Nobody /\ ~s.onSelect
  BY <1>3, <1>4, NewStateFacts
<1>6. PICK len \in Nat : len = Len(states) /\ DOMAIN states = 1 .. len /\ Len(array) = len
  BY TabsFacts
<1>7. PICK ts : ts = Append(states, s)
  OBVIOUS
<1>8. /\ Tabs(ts, b) /\ ts # <<>> /\ Len(ts) = len + 1 /\ ts[len + 1] = s
      /\ \A k \in 1 .. len : ts[k] = states[k]
  <2>1. Tabs(states, last)
    BY DEF IInv
  <2> QED
    BY <1>2, <1>3, <1>5, <1>6, <1>7, <2>1, AppendFacts
<1>9. DOMAIN ts = 1 .. len + 1
  BY <1>8, LenProperties DEF Tabs
<1>10. PICK ss : ss = ToggleBean(ts, len + 1)
  OBVIOUS
<1>11. /\ Tabs(ss, b) /\ OneSelected(ss) /\ DOMAIN ss = 1 .. len + 1
       /\ \A k \in 1 .. len + 1 :
            /\ ss[k].bean = ts[k].bean /\ ss[k].origin = ts[k].origin
            /\ ss[k].onSelect = ts[k].onSelect
  <2>1. len + 1 \in Nat
    OBVIOUS
  <2>2. Tabs(ss, b) /\ OneSelected(ss) /\ SelectionAside(ss, ts)
    BY <1>8, <1>10, <2>1, ToggleFacts
  <2> QED
    BY <1>9, <2>2 DEF SelectionAside
<1>12. Render(val, ss)
  BY <1>2, <1>4, <1>6, <1>7, <1>10 DEF OnAddBean
<1>13. \A k \in 1 .. len + 1 : k \in 1 .. len \/ k = len + 1
  OBVIOUS
<1>14. Originals(ss, val, initial, slipped) /\ FlagsAreLate(ss, lateClick)
  <2>1. val[b] = initial[b]
    BY <1>3 DEF IInv, NewIsInitial
  <2>2. \A k \in DOMAIN ss :
          \/ ss[k].bean = b /\ ss[k].origin = Nobody /\ ~ss[k].onSelect
          \/ \E j \in DOMAIN states : /\ ss[k].bean = states[j].bean
                                      /\ ss[k].origin = states[j].origin
                                      /\ ss[k].onSelect = states[j].onSelect
    BY <1>5, <1>6, <1>8, <1>11, <1>13
  <2> QED
    BY <2>1, <2>2, NewTab DEF IInv
<1>15. array' = [k \in DOMAIN ss |-> ss[k].bean]
  <2>1. PICK all : all = [k \in 1 .. len + 1 |-> ss[k].bean]
    OBVIOUS
  <2>2. PICK more : more = Append(array, b)
    OBVIOUS
  <2>3. /\ more \in Seq(Bean) /\ Len(more) = len + 1 /\ more[len + 1] = b
        /\ \A k \in 1 .. len : more[k] = array[k]
    BY <1>3, <1>6, <2>2, TabsFacts, AppendProperties
  <2>4. \A k \in 1 .. len + 1 : ss[k].bean = more[k]
    BY <1>5, <1>6, <1>8, <1>11, <1>13, <2>3, TabsFacts
  <2>5. more \in [1 .. len + 1 -> Bean]
    BY <2>3, LenProperties
  <2>6. more = all
    BY <2>1, <2>4, <2>5
  <2> QED
    BY <1>1, <1>2, <1>11, <2>1, <2>2, <2>6
<1>16. val \in [Bean -> Fields] /\ \A c \in Bean : c > last' => val[c] = initial[c]
  BY <1>3 DEF IInv, TypeOK, NewIsInitial
<1> QED
  BY <1>1, <1>2, <1>3, <1>11, <1>12, <1>14, <1>15, <1>16, RenderStep

\* The tab of the bean that follows the last one.
LEMMA OnlyTabFacts ==
  ASSUME NEW n \in Nat \ {0}, NEW s \in StateType, s.bean = n, NEW ts, ts = <<s>>
  PROVE  Tabs(ts, n) /\ ts # <<>> /\ DOMAIN ts = {1} /\ ts[1] = s
<1>1. ts \in Seq(StateType) /\ DOMAIN ts = {1} /\ ts[1] = s /\ ts # <<>>
  OBVIOUS
<1>2. n \in 1 .. n
  OBVIOUS
<1> QED
  BY <1>1, <1>2 DEF Tabs

\* A deleted bean's tab is taken out and the others are renamed; the only one
\* is replaced by that of a new bean.
LEMMA OnDeleteBeanInv == IInv /\ OnDeleteBean => IInv'
<1> SUFFICES ASSUME IInv, OnDeleteBean PROVE IInv'
  OBVIOUS
<1>1. dates' = dates /\ slipped' = slipped /\ lateClick' = lateClick
  BY DEF OnDeleteBean
<1>2. PICK i \in DOMAIN states :
        IF Len(states) > 1
        THEN /\ array' = [k \in 1 .. Len(states) - 1 |-> RemoveAt(states, i)[k].bean]
             /\ Render(val, ToggleBean(RemoveAt(states, i), 0))
             /\ UNCHANGED last
        ELSE /\ last < MaxBean
             /\ last' = last + 1
             /\ array' = <<last + 1>>
             /\ Render(val, ToggleBean(<<NewState(last + 1, TRUE, FALSE)>>, 0))
  BY DEF OnDeleteBean
<1>3. Tabs(states, last) /\ Originals(states, val, initial, slipped) /\ FlagsAreLate(states, lateClick)
  BY DEF IInv
<1>4. PICK len \in Nat : len = Len(states)
  BY TabsFacts
<1>5. val \in [Bean -> Fields]
  BY DEF IInv, TypeOK
<1>6. 0 \in Nat /\ last \in Bean /\ last <= last
  BY TabsFacts
<1>7. CASE len > 1
  <2>1. PICK rs : rs = RemoveAt(states, i)
    OBVIOUS
  <2>2. /\ array' = [k \in 1 .. len - 1 |-> rs[k].bean]
        /\ Render(val, ToggleBean(rs, 0)) /\ last' = last
    BY <1>2, <1>4, <1>7, <2>1
  <2>3. /\ Tabs(rs, last) /\ Len(rs) = len - 1 /\ DOMAIN rs = 1 .. len - 1
        /\ \A k \in DOMAIN rs : \E j \in DOMAIN states : rs[k] = states[j]
    <3>1. /\ Tabs(rs, last) /\ Len(rs) = Len(states) - 1 /\ DOMAIN rs = 1 .. Len(states) - 1
          /\ \A k \in DOMAIN rs : \E j \in DOMAIN states : rs[k] = states[j]
      BY <1>3, <2>1, RemoveFacts
    <3> QED
      BY <1>4, <3>1
  <2>4. rs # <<>>
    BY <1>7, <2>3, EmptySeq
  <2>5. PICK ss : ss = ToggleBean(rs, 0)
    OBVIOUS
  <2>6. Tabs(ss, last) /\ OneSelected(ss) /\ SelectionAside(ss, rs)
    BY <1>6, <2>3, <2>4, <2>5, ToggleFacts
  <2>7. \A k \in DOMAIN ss : \E j \in DOMAIN states :
          /\ ss[k].bean = states[j].bean /\ ss[k].origin = states[j].origin
          /\ ss[k].onSelect = states[j].onSelect
    BY <2>3, <2>6 DEF SelectionAside
  <2>8. Originals(ss, val, initial, slipped) /\ FlagsAreLate(ss, lateClick)
    BY <1>3, <2>7, CarryTabs
  <2>9. array' = [k \in DOMAIN ss |-> ss[k].bean]
    BY <2>2, <2>3, <2>6 DEF SelectionAside
  <2>10. \A b \in Bean : b > last => val[b] = initial[b]
    BY DEF IInv, NewIsInitial
  <2> QED
    BY <1>1, <1>5, <1>6, <2>2, <2>5, <2>6, <2>8, <2>9, <2>10, RenderStep
<1>8. CASE ~ (len > 1)
  <2>1. PICK b : b = last + 1
    OBVIOUS
  <2>2. PICK s : s = NewState(b, TRUE, FALSE)
    OBVIOUS
  <2>3. PICK ts : ts = <<s>>
    OBVIOUS
  <2>4. /\ last < MaxBean /\ last' = b /\ array' = <<b>>
        /\ Render(val, ToggleBean(ts, 0))
    BY <1>2, <1>4, <1>8, <2>1, <2>2, <2>3
  <2>5. /\ b \in Bean /\ b \in Nat \ {0} /\ b > last /\ last <= b
        /\ \A c \in Bean : c > b => c > last
    <3>1. last \in Nat /\ MaxBean \in Nat
      BY TabsFacts, BeanAssumption
    <3> QED
      BY <2>1, <2>4, <3>1 DEF Bean
  <2>6. s \in StateType /\ s.bean = b /\ s.origin = Nobody /\ ~s.onSelect
    BY <2>2, <2>5, NewStateFacts
  <2>7. Tabs(ts, b) /\ ts # <<>> /\ DOMAIN ts = {1} /\ ts[1] = s
    BY <2>3, <2>5, <2>6, OnlyTabFacts
  <2>8. PICK ss : ss = ToggleBean(ts, 0)
    OBVIOUS
  <2>9. Tabs(ss, b) /\ OneSelected(ss) /\ SelectionAside(ss, ts)
    BY <1>6, <2>7, <2>8, ToggleFacts
  <2>10. DOMAIN ss = {1} /\ ss[1].bean = b /\ ss[1].origin = Nobody /\ ~ss[1].onSelect
    BY <2>6, <2>7, <2>9 DEF SelectionAside
  <2>11. Originals(ss, val, initial, slipped) /\ FlagsAreLate(ss, lateClick)
    <3>1. val[b] = initial[b]
      BY <2>5 DEF IInv, NewIsInitial
    <3>2. \A k \in DOMAIN ss : ss[k].bean = b /\ ss[k].origin = Nobody /\ ~ss[k].onSelect
      BY <2>10
    <3> QED
      BY <1>3, <3>1, <3>2, NewTab
  <2>12. array' = [k \in DOMAIN ss |-> ss[k].bean]
    <3>1. <<b>> = [k \in {1} |-> b]
      OBVIOUS
    <3>2. [k \in DOMAIN ss |-> ss[k].bean] = [k \in {1} |-> b]
      BY <2>10
    <3> QED
      BY <2>4, <3>1, <3>2
  <2>13. \A c \in Bean : c > b => val[c] = initial[c]
    BY <2>5 DEF IInv, NewIsInitial
  <2> QED
    BY <1>1, <1>5, <2>4, <2>5, <2>8, <2>9, <2>11, <2>12, <2>13, RenderStep
<1> QED
  BY <1>7, <1>8

\* The bean is what its original was, which stays the original.
LEMMA OnRestoreBeanInv == IInv /\ OnRestoreBean => IInv'
<1> SUFFICES ASSUME IInv, OnRestoreBean PROVE IInv'
  OBVIOUS
<1>1. PICK i \in DOMAIN states :
        /\ Render(IF states[i].origin = Nobody THEN val
                  ELSE [val EXCEPT ![states[i].bean] = states[i].origin], states)
        /\ array' = array /\ last' = last /\ dates' = dates
        /\ slipped' = slipped /\ lateClick' = lateClick
  BY DEF OnRestoreBean, BeanOf
<1>2. PICK b \in Bean : b = states[i].bean /\ b <= last
  BY TabsFacts
<1>3. PICK o : o = states[i].origin
  OBVIOUS
<1>4. o \in Fields \cup {Nobody}
  <2>1. states[i] \in StateType
    BY TabsFacts
  <2> QED
    BY <1>3, <2>1 DEF StateType
<1>5. PICK fields : fields = IF o = Nobody THEN val ELSE [val EXCEPT ![b] = o]
  OBVIOUS
<1>6. /\ Tabs(states, last) /\ OneSelected(states) /\ FlagsAreLate(states, lateClick)
      /\ Originals(states, val, initial, slipped)
      /\ array = [k \in DOMAIN states |-> states[k].bean]
  BY DEF IInv
<1>7. val \in [Bean -> Fields] /\ last \in Nat /\ last \in Bean /\ last <= last
  BY TabsFacts DEF IInv, TypeOK
<1>8. /\ fields \in [Bean -> Fields] /\ \A c \in Bean \ {b} : fields[c] = val[c]
      /\ fields[b] = IF o = Nobody THEN val[b] ELSE o
  BY <1>4, <1>5, <1>7
<1>9. \A k \in DOMAIN states : states[k].bean = b => k = i
  BY <1>2, <1>6 DEF Tabs
<1>10. \A k \in DOMAIN states : states[k].origin = Nobody => fields[states[k].bean] = val[states[k].bean]
  BY <1>3, <1>8, <1>9, TabsFacts
<1>11. Originals(states, fields, initial, slipped)
  BY <1>6, <1>10 DEF Originals
<1>12. \A c \in Bean : c > last => fields[c] = initial[c]
  <2>1. \A c \in Bean : c > last => c # b
    BY <1>2, <1>7 DEF Bean
  <2> QED
    BY <1>8, <2>1 DEF IInv, NewIsInitial
<1>13. Render(fields, states)
  BY <1>1, <1>2, <1>3, <1>5
<1> QED
  BY <1>1, <1>6, <1>7, <1>8, <1>11, <1>12, <1>13, RenderStep

\* The tabs with another mode of one.
WithMode(ss, i, x) == [ss EXCEPT ![i].editMode = x]

\* The edit mode of a tab changes neither its original nor its flags.
LEMMA ModeFacts ==
  ASSUME IInv, NEW i \in DOMAIN states, NEW x \in BOOLEAN,
         NEW ss, ss = WithMode(states, i, x)
  PROVE  /\ Tabs(ss, last) /\ OneSelected(ss) /\ DOMAIN ss = DOMAIN states
         /\ \A k \in DOMAIN states :
              /\ ss[k].bean = states[k].bean /\ ss[k].origin = states[k].origin
              /\ ss[k].onSelect = states[k].onSelect
<1>1. PICK old \in StateType : old = states[i]
  BY TabsFacts
<1>2. PICK s : s = [old EXCEPT !.editMode = x]
  OBVIOUS
<1>3. /\ s \in StateType /\ s.bean = old.bean /\ s.origin = old.origin
      /\ s.onSelect = old.onSelect /\ s.select = old.select
  BY <1>2 DEF StateType
<1>4. ss = Put(states, i, s)
  BY <1>1, <1>2 DEF Put, WithMode
<1>5. Tabs(states, last) /\ OneSelected(states)
  BY DEF IInv
<1>6. /\ Tabs(ss, last) /\ DOMAIN ss = DOMAIN states /\ ss[i] = s
      /\ \A k \in DOMAIN states : k # i => ss[k] = states[k]
      /\ OneSelected(ss)
  BY <1>1, <1>3, <1>4, <1>5, ExceptFacts
<1> QED
  BY <1>1, <1>3, <1>6

\* A tab enters the edit mode.
LEMMA OnEditModeInv == IInv /\ OnEditMode => IInv'
<1> SUFFICES ASSUME IInv, OnEditMode PROVE IInv'
  OBVIOUS
<1>1. PICK i \in DOMAIN states : Render(val, WithMode(states, i, TRUE))
  BY DEF OnEditMode, WithMode
<1>2. /\ array' = array /\ last' = last /\ dates' = dates
      /\ slipped' = slipped /\ lateClick' = lateClick
  BY DEF OnEditMode
<1>3. PICK ss : ss = WithMode(states, i, TRUE)
  OBVIOUS
<1>4. /\ Tabs(ss, last) /\ OneSelected(ss) /\ DOMAIN ss = DOMAIN states
      /\ \A k \in DOMAIN states :
           /\ ss[k].bean = states[k].bean /\ ss[k].origin = states[k].origin
           /\ ss[k].onSelect = states[k].onSelect
  <2>1. PICK x \in BOOLEAN : x = TRUE
    OBVIOUS
  <2>2. ss = WithMode(states, i, x)
    BY <1>3, <2>1
  <2> QED
    BY <2>2, ModeFacts
<1>5. Originals(ss, val, initial, slipped) /\ FlagsAreLate(ss, lateClick)
  BY <1>4, CarryTabs DEF IInv
<1>6. array' = [k \in DOMAIN ss |-> ss[k].bean]
  BY <1>2, <1>4 DEF IInv
<1>7. val \in [Bean -> Fields] /\ \A b \in Bean : b > last => val[b] = initial[b]
  BY DEF IInv, TypeOK, NewIsInitial
<1>8. last \in Bean /\ last <= last
  BY TabsFacts
<1> QED
  BY <1>1, <1>2, <1>3, <1>4, <1>5, <1>6, <1>7, <1>8, RenderStep

\* The trimmed values are values.
LEMMA TrimmedFacts ==
  ASSUME NEW multi \in Seq(Single)
  PROVE  Trimmed(multi) \in Seq(Single) /\ Trimmed(multi) # Undefined
<1>1. PICK len \in Nat : DOMAIN multi = 1 .. len
  BY LenProperties
<1>2. PICK kept : kept = {j \in 1 .. len : multi[j] # ""}
  OBVIOUS
<1>3. IsFiniteSet(1 .. len)
  BY <1>1, FS_Interval
<1>4. IsFiniteSet(kept)
  BY <1>2, <1>3, FS_Subset
<1>5. PICK n \in Nat : n = Cardinality(kept)
  BY <1>4, FS_CardinalityType
<1>6. Trimmed(multi) = [k \in 1 .. n |-> "text"]
  BY <1>1, <1>2, <1>5 DEF Trimmed
<1>7. Trimmed(multi) \in [1 .. n -> Single]
  BY <1>6 DEF Single
<1>8. Trimmed(multi) \in Seq(Single)
  BY <1>5, <1>7
<1> QED
  BY <1>8, FieldsFacts

\* OK: a bean in edit mode has values to trim.
LEMMA OnViewModeInv == IInv /\ OnViewMode => IInv'
<1> SUFFICES ASSUME IInv, OnViewMode PROVE IInv'
  OBVIOUS
<1>1. PICK i \in DOMAIN states :
        /\ states[i].editMode
        /\ LET b == BeanOf(i)
               stored == [val[b] EXCEPT !.multi = Trimmed(@), !.input = Validated(@)]
           IN /\ Slips(b, stored)
              /\ Render(Put(val, b, stored), WithMode(states, i, stored.input # "number"))
        /\ array' = array /\ last' = last /\ dates' = dates /\ lateClick' = lateClick
  BY DEF OnViewMode, Editing, Put, WithMode
<1>2. PICK b \in Bean : b = states[i].bean /\ b <= last
  BY TabsFacts
<1>3. PICK r : r = [val[b] EXCEPT !.multi = Trimmed(@), !.input = Validated(@)]
  OBVIOUS
<1>4. PICK x \in BOOLEAN : x = (r.input # "number")
  OBVIOUS
<1>5. PICK v : v = Put(val, b, r)
  OBVIOUS
<1>6. PICK ss : ss = WithMode(states, i, x)
  OBVIOUS
<1>7. Slips(b, r) /\ Render(v, ss)
  BY <1>1, <1>2, <1>3, <1>4, <1>5, <1>6 DEF BeanOf
<1>8. r \in Fields /\ r.multi # Undefined
  <2>1. PICK old \in Fields : old = val[b]
    BY DEF IInv, TypeOK
  <2>2. old.multi \in Seq(Single)
    <3>1. old.multi # Undefined
      BY <1>1, <1>2, <2>1 DEF IInv, EditedHasMulti
    <3> QED
      BY <3>1, FieldsFacts
  <2>3. PICK t : t = Trimmed(old.multi)
    OBVIOUS
  <2>4. t \in Seq(Single) /\ t # Undefined
    BY <2>2, <2>3, TrimmedFacts
  <2>5. PICK p \in Plain \cup {Undefined} : p = Validated(old.input)
    <3>1. old.input \in Plain \cup {Undefined}
      BY FieldsFacts
    <3> QED
      BY <3>1 DEF Validated, Plain, Input
  <2>6. r = [old EXCEPT !.multi = t, !.input = p]
    BY <1>3, <2>1, <2>3, <2>5
  <2> QED
    BY <2>4, <2>6 DEF Fields
<1>9. /\ v \in [Bean -> Fields] /\ Originals(states, v, initial, slipped')
      /\ \A c \in Bean : c > last => v[c] = initial[c]
  BY <1>2, <1>5, <1>7, <1>8, ChangeFacts
<1>10. /\ Tabs(ss, last) /\ OneSelected(ss) /\ DOMAIN ss = DOMAIN states
       /\ \A k \in DOMAIN states :
            /\ ss[k].bean = states[k].bean /\ ss[k].origin = states[k].origin
            /\ ss[k].onSelect = states[k].onSelect
  BY <1>6, ModeFacts
<1>11. Originals(ss, v, initial, slipped') /\ FlagsAreLate(ss, lateClick')
  <2>1. PICK slip : slip = slipped'
    OBVIOUS
  <2>2. Originals(states, v, initial, slip) /\ FlagsAreLate(states, lateClick)
    BY <1>9, <2>1 DEF IInv
  <2>3. Originals(ss, v, initial, slip) /\ FlagsAreLate(ss, lateClick)
    BY <1>10, <2>2, CarryTabs
  <2> QED
    BY <1>1, <2>1, <2>3
<1>12. array' = [k \in DOMAIN ss |-> ss[k].bean]
  BY <1>1, <1>10 DEF IInv
<1>13. last \in Bean /\ last <= last
  BY TabsFacts
<1> QED
  BY <1>1, <1>7, <1>9, <1>10, <1>11, <1>12, <1>13, RenderStep

-----------------------------------------------------------------------------
(* The steps that leave the elements on the page                           *)

\* A plain or multiple input keeps the original before it changes the bean.
LEMMA PlainStep ==
  ASSUME IInv, NEW i \in DOMAIN states, states[i].editMode, KeepOrigin(i),
         NEW b \in Bean, b = states[i].bean, b <= last,
         NEW r \in Fields, r.multi # Undefined, r.custom = val[b].custom,
         val' = Put(val, b, r),
         UNCHANGED <<array, last, inputVars, initial, history>>
  PROVE  IInv'
<1>1. /\ array' = array /\ last' = last /\ initial' = initial /\ focus' = focus /\ text' = text
      /\ result' = result /\ searches' = searches /\ dates' = dates
      /\ slipped' = slipped /\ lateClick' = lateClick /\ spoiled' = spoiled
  BY DEF inputVars, history
<1>2. TypeOK /\ val \in [Bean -> Fields]
  BY DEF IInv, TypeOK
<1>3. val' \in [Bean -> Fields] /\ val'[b] = r /\ \A c \in Bean \ {b} : val'[c] = val[c]
  BY <1>2 DEF Put
<1>4. PICK old \in StateType : old = states[i]
  BY TabsFacts
<1>5. PICK o \in Fields : o = IF old.origin = Nobody THEN val[b] ELSE old.origin
  BY <1>2, <1>4 DEF StateType
<1>6. PICK s : s = [old EXCEPT !.origin = o]
  OBVIOUS
<1>7. /\ s \in StateType /\ s.origin = o /\ s.bean = old.bean /\ s.editMode = old.editMode
      /\ s.select = old.select /\ s.onChange = old.onChange /\ s.onSelect = old.onSelect
  BY <1>6 DEF StateType
<1>8. PICK ss : ss = Put(states, i, s)
  OBVIOUS
<1>9. states' = ss
  BY <1>4, <1>5, <1>6, <1>8 DEF KeepOrigin, BeanOf, Put
<1>10. Tabs(states, last) /\ OneSelected(states)
  BY DEF IInv
<1>11. /\ Tabs(ss, last) /\ DOMAIN ss = DOMAIN states /\ ss[i] = s
       /\ \A k \in DOMAIN states : ss[k].bean = states[k].bean
       /\ \A k \in DOMAIN states : k # i => ss[k] = states[k]
       /\ OneSelected(ss)
  BY <1>4, <1>7, <1>8, <1>10, ExceptFacts
<1>12. \A k \in DOMAIN states : states[k].bean \in Bean /\ (k # i => states[k].bean # b)
  BY <1>10, TabsFacts DEF Tabs
<1>13. Originals(ss, val', initial, slipped)
  <2>1. s.origin # Nobody /\ s.origin.multi # Undefined
    <3>1. val[b].multi # Undefined
      BY DEF IInv, EditedHasMulti
    <3>2. old.origin # Nobody => old.origin.multi # Undefined
      BY <1>4 DEF IInv, Originals
    <3> QED
      BY <1>5, <1>7, <3>1, <3>2, FieldsFacts
  <2>2. b \notin slipped => s.origin = initial[b]
    BY <1>4, <1>5, <1>7 DEF IInv, Originals
  <2> SUFFICES ASSUME NEW k \in DOMAIN ss
               PROVE  /\ ss[k].origin # Nobody => ss[k].origin.multi # Undefined
                      /\ ss[k].bean \notin slipped =>
                           (IF ss[k].origin = Nobody THEN val'[ss[k].bean] ELSE ss[k].origin)
                             = initial[ss[k].bean]
    BY DEF Originals
  <2>3. CASE k = i
    BY <1>11, <2>1, <2>2, <2>3
  <2>4. CASE k # i
    <3>1. ss[k] = states[k] /\ val'[states[k].bean] = val[states[k].bean]
      BY <1>3, <1>11, <1>12, <2>4
    <3>2. k \in DOMAIN states
      BY <1>11
    <3> QED
      BY <3>1, <3>2 DEF IInv, Originals
  <2> QED
    BY <2>3, <2>4
<1>14. EditedHasMulti(ss, val')
  <2>1. \A k \in DOMAIN states : ss[k].editMode = states[k].editMode
    BY <1>4, <1>7, <1>11
  <2>2. \A k \in DOMAIN states : states[k].editMode => val'[states[k].bean].multi # Undefined
    BY <1>3, <1>12 DEF IInv, EditedHasMulti
  <2> QED
    BY <1>11, <2>1, <2>2 DEF EditedHasMulti
<1>15. FlagsAreLate(ss, lateClick)
  <2>1. \A k \in DOMAIN states : ss[k].onSelect = states[k].onSelect
    BY <1>4, <1>7, <1>11
  <2> QED
    BY <1>11, <2>1 DEF IInv, FlagsAreLate
<1>16. NewIsInitial'
  <2>1. \A c \in Bean : c > last => c # b
    BY TabsFacts DEF Bean
  <2> QED
    BY <1>1, <1>3, <2>1 DEF IInv, NewIsInitial
<1>17. TextInv'
  <2>1. \A k \in DOMAIN states :
          ss[k].select = states[k].select /\ ss[k].onChange = states[k].onChange
    BY <1>4, <1>7, <1>11
  <2>2. \A c \in Bean : val'[c].custom = val[c].custom
    BY <1>3
  <2> QED
    BY <1>1, <1>9, <1>11, <1>12, <2>1, <2>2 DEF IInv, TextInv
<1>18. TypeOK'
  BY <1>1, <1>2, <1>3 DEF TypeOK
<1>19. array' = [k \in DOMAIN ss |-> ss[k].bean]
  BY <1>1, <1>11 DEF IInv
<1> QED
  BY <1>1, <1>9, <1>11, <1>13, <1>14, <1>15, <1>16, <1>17, <1>18, <1>19 DEF IInv

\* A bean in edit mode with another value of its plain or multiple input.
LEMMA InputFacts ==
  ASSUME IInv, NEW i \in DOMAIN states, states[i].editMode, NEW b, b = states[i].bean
  PROVE  /\ b \in Bean /\ b <= last
         /\ val[b] \in Fields /\ val[b].multi \in Seq(Single) /\ val[b].multi # Undefined
         /\ \A x \in Plain : LET r == [val[b] EXCEPT !.input = x]
                             IN r \in Fields /\ r.multi # Undefined /\ r.custom = val[b].custom
         /\ \A m \in Seq(Single) : LET r == [val[b] EXCEPT !.multi = m]
                                   IN r \in Fields /\ r.multi # Undefined /\ r.custom = val[b].custom
<1>1. b \in Bean /\ b <= last
  BY TabsFacts
<1>2. PICK old \in Fields : old = val[b]
  BY <1>1 DEF IInv, TypeOK
<1>3. old.multi # Undefined /\ old.multi \in Seq(Single)
  <2>1. old.multi # Undefined
    BY <1>2 DEF IInv, EditedHasMulti
  <2> QED
    BY <2>1, FieldsFacts
<1>4. ASSUME NEW x \in Plain, NEW r, r = [old EXCEPT !.input = x]
      PROVE  r \in Fields /\ r.multi # Undefined /\ r.custom = old.custom
  BY <1>3, <1>4 DEF Fields
<1>5. ASSUME NEW m \in Seq(Single), NEW r, r = [old EXCEPT !.multi = m]
      PROVE  r \in Fields /\ r.multi # Undefined /\ r.custom = old.custom
  <2>1. m # Undefined
    BY FieldsFacts
  <2> QED
    BY <1>5, <2>1 DEF Fields
<1> QED
  BY <1>1, <1>2, <1>3, <1>4, <1>5

\* A plain input is entered, or one of the values of the multiple input.
LEMMA OnChangeInputInv == IInv /\ OnChangeInput => IInv'
<1> SUFFICES ASSUME IInv, OnChangeInput PROVE IInv'
  OBVIOUS
<1>1. PICK i \in DOMAIN states :
        /\ states[i].editMode
        /\ \/ \E x \in Input : Change(BeanOf(i), [val[BeanOf(i)] EXCEPT !.input = x])
           \/ \E k \in DOMAIN val[BeanOf(i)].multi : \E x \in Single :
                Change(BeanOf(i), [val[BeanOf(i)] EXCEPT !.multi[k] = x])
        /\ KeepOrigin(i)
  BY DEF OnChangeInput, Editing
<1>2. UNCHANGED <<array, last, inputVars, initial, history>>
  BY DEF OnChangeInput
<1>3. PICK b : b = states[i].bean
  OBVIOUS
<1>4. /\ b \in Bean /\ b <= last
      /\ val[b] \in Fields /\ val[b].multi \in Seq(Single) /\ val[b].multi # Undefined
      /\ \A x \in Plain : LET r == [val[b] EXCEPT !.input = x]
                          IN r \in Fields /\ r.multi # Undefined /\ r.custom = val[b].custom
      /\ \A m \in Seq(Single) : LET r == [val[b] EXCEPT !.multi = m]
                                IN r \in Fields /\ r.multi # Undefined /\ r.custom = val[b].custom
  BY <1>1, <1>3, InputFacts
<1>5. PICK r \in Fields : val' = Put(val, b, r) /\ r.multi # Undefined /\ r.custom = val[b].custom
  <2>1. CASE \E x \in Input : Change(b, [val[b] EXCEPT !.input = x])
    <3>1. PICK x \in Input : Change(b, [val[b] EXCEPT !.input = x])
      BY <2>1
    <3>2. PICK r : r = [val[b] EXCEPT !.input = x]
      OBVIOUS
    <3>3. r \in Fields /\ r.multi # Undefined /\ r.custom = val[b].custom
      BY <1>4, <3>1, <3>2 DEF Plain
    <3>4. val' = Put(val, b, r)
      BY <3>1, <3>2 DEF Change, Put
    <3> QED
      BY <3>3, <3>4
  <2>2. CASE \E k \in DOMAIN val[b].multi : \E x \in Single :
               Change(b, [val[b] EXCEPT !.multi[k] = x])
    <3>1. PICK k \in DOMAIN val[b].multi, x \in Single : Change(b, [val[b] EXCEPT !.multi[k] = x])
      BY <2>2
    <3>2. PICK old \in Seq(Single) : old = val[b].multi
      BY <1>4
    <3>3. PICK m : m = [old EXCEPT ![k] = x]
      OBVIOUS
    <3>4. m \in Seq(Single)
      BY <3>1, <3>2, <3>3, ExceptSeq
    <3>5. PICK r : r = [val[b] EXCEPT !.multi = m]
      OBVIOUS
    <3>6. r \in Fields /\ r.multi # Undefined /\ r.custom = val[b].custom
      BY <1>4, <3>4, <3>5
    <3>7. val' = Put(val, b, r)
      BY <3>1, <3>2, <3>3, <3>5 DEF Change, Put
    <3> QED
      BY <3>6, <3>7
  <2> QED
    BY <1>1, <1>3, <2>1, <2>2 DEF BeanOf
<1> QED
  BY <1>1, <1>2, <1>3, <1>4, <1>5, PlainStep

\* The number of a plain input becomes its text again.
LEMMA OnLeaveNumberInv == IInv /\ OnLeaveNumber => IInv'
<1> SUFFICES ASSUME IInv, OnLeaveNumber PROVE IInv'
  OBVIOUS
<1>1. PICK i \in DOMAIN states :
        /\ states[i].editMode
        /\ Change(BeanOf(i), [val[BeanOf(i)] EXCEPT !.input = "good"])
        /\ Slips(BeanOf(i), [val[BeanOf(i)] EXCEPT !.input = "good"])
  BY DEF OnLeaveNumber, Editing
<1>2. /\ array' = array /\ states' = states /\ last' = last /\ initial' = initial
      /\ focus' = focus /\ text' = text /\ result' = result /\ searches' = searches
      /\ dates' = dates /\ lateClick' = lateClick /\ spoiled' = spoiled
  BY DEF OnLeaveNumber, stateVars, inputVars
<1>3. PICK b : b = states[i].bean
  OBVIOUS
<1>4. PICK r : r = [val[b] EXCEPT !.input = "good"]
  OBVIOUS
<1>5. /\ b \in Bean /\ b <= last
      /\ r \in Fields /\ r.multi # Undefined /\ r.custom = val[b].custom
  <2>1. /\ b \in Bean /\ b <= last
        /\ \A x \in Plain : LET s == [val[b] EXCEPT !.input = x]
                            IN s \in Fields /\ s.multi # Undefined /\ s.custom = val[b].custom
    BY <1>1, <1>3, InputFacts
  <2>2. "good" \in Plain
    BY DEF Plain, Input
  <2> QED
    BY <1>4, <2>1, <2>2
<1>6. PICK v : v = Put(val, b, r)
  OBVIOUS
<1>7. Slips(b, r) /\ val' = v
  BY <1>1, <1>3, <1>4, <1>6 DEF Change, Put, BeanOf
<1>8. /\ v \in [Bean -> Fields] /\ v[b] = r /\ \A c \in Bean \ {b} : v[c] = val[c]
      /\ Originals(states, v, initial, slipped') /\ EditedHasMulti(states, v)
      /\ \A c \in Bean : c > last => v[c] = initial[c]
  BY <1>5, <1>6, <1>7, ChangeFacts
<1>9. TypeOK'
  BY <1>2, <1>7, <1>8 DEF IInv, TypeOK
<1>10. NewIsInitial'
  BY <1>2, <1>7, <1>8 DEF NewIsInitial
<1>11. TextInv'
  <2>1. \A c \in Bean : v[c].custom = val[c].custom
    BY <1>5, <1>8
  <2> QED
    BY <1>2, <1>7, <2>1, TabsFacts DEF IInv, TextInv
<1>12. Originals(states', val', initial', slipped') /\ EditedHasMulti(states', val')
  BY <1>2, <1>7, <1>8
<1> QED
  BY <1>2, <1>9, <1>10, <1>11, <1>12 DEF IInv

\* An empty value is added to the multiple input.
LEMMA OnAddInputInv == IInv /\ OnAddInput => IInv'
<1> SUFFICES ASSUME IInv, OnAddInput PROVE IInv'
  OBVIOUS
<1>1. PICK i \in DOMAIN states :
        /\ states[i].editMode
        /\ Change(BeanOf(i), [val[BeanOf(i)] EXCEPT !.multi = Append(@, "")])
        /\ KeepOrigin(i)
  BY DEF OnAddInput, Editing
<1>2. UNCHANGED <<array, last, inputVars, initial, history>>
  BY DEF OnAddInput
<1>3. PICK b : b = states[i].bean
  OBVIOUS
<1>4. /\ b \in Bean /\ b <= last
      /\ val[b] \in Fields /\ val[b].multi \in Seq(Single) /\ val[b].multi # Undefined
      /\ \A x \in Plain : LET r == [val[b] EXCEPT !.input = x]
                          IN r \in Fields /\ r.multi # Undefined /\ r.custom = val[b].custom
      /\ \A m \in Seq(Single) : LET r == [val[b] EXCEPT !.multi = m]
                                IN r \in Fields /\ r.multi # Undefined /\ r.custom = val[b].custom
  <2>1. states[i].editMode
    BY <1>1
  <2> QED
    BY <1>3, <2>1, InputFacts
<1>5. PICK m : m = Append(val[b].multi, "")
  OBVIOUS
<1>6. m \in Seq(Single)
  BY <1>4, <1>5, AppendProperties DEF Single
<1>7. PICK r : r = [val[b] EXCEPT !.multi = m]
  OBVIOUS
<1>8. r \in Fields /\ r.multi # Undefined /\ r.custom = val[b].custom
  BY <1>4, <1>6, <1>7
<1>9. val' = Put(val, b, r)
  BY <1>1, <1>3, <1>5, <1>7 DEF Change, Put, BeanOf
<1> QED
  BY <1>1, <1>2, <1>3, <1>4, <1>8, <1>9, PlainStep

\* A date that waits for its timer is that of a bean that has been made.
LEMMA OnBlurDatePickerInputInv == IInv /\ OnBlurDatePickerInput => IInv'
<1> SUFFICES ASSUME IInv, OnBlurDatePickerInput PROVE IInv'
  OBVIOUS
<1>1. PICK i \in DOMAIN states : dates' = Append(dates, [bean |-> BeanOf(i), name |-> i])
  BY DEF OnBlurDatePickerInput
<1>2. /\ array' = array /\ states' = states /\ last' = last /\ val' = val /\ initial' = initial
      /\ focus' = focus /\ text' = text /\ result' = result /\ searches' = searches
      /\ slipped' = slipped /\ lateClick' = lateClick /\ spoiled' = spoiled
  BY DEF OnBlurDatePickerInput, stateVars, history
<1>3. PICK d : d = [bean |-> states[i].bean, name |-> i]
  OBVIOUS
<1>4. d \in [bean : Bean, name : Nat] /\ d.bean <= last
  BY <1>3, TabsFacts
<1>5. dates \in Seq([bean : Bean, name : Nat]) /\ \A k \in DOMAIN dates : dates[k].bean <= last
  BY DEF IInv, TypeOK
<1>6. PICK more : more = Append(dates, d)
  OBVIOUS
<1>7. PICK len \in Nat : len = Len(dates) /\ DOMAIN dates = 1 .. len
  BY <1>5, LenProperties
<1>8. /\ more \in Seq([bean : Bean, name : Nat]) /\ Len(more) = len + 1
      /\ more[len + 1] = d /\ \A k \in 1 .. len : more[k] = dates[k]
  BY <1>4, <1>5, <1>6, <1>7, AppendProperties
<1>9. DOMAIN more = 1 .. len + 1 /\ \A k \in 1 .. len + 1 : k \in 1 .. len \/ k = len + 1
  BY <1>8, LenProperties
<1>10. \A k \in DOMAIN more : more[k].bean <= last
  BY <1>4, <1>5, <1>7, <1>8, <1>9
<1>11. dates' = more
  BY <1>1, <1>3, <1>6 DEF BeanOf
<1>12. TypeOK'
  BY <1>2, <1>8, <1>10, <1>11 DEF IInv, TypeOK
<1> QED
  BY <1>2, <1>12 DEF IInv, NewIsInitial, TextInv

\* The rest of a queue, and its head, are of the same kind.
LEMMA TailFacts ==
  ASSUME NEW S, NEW q \in Seq(S), q # <<>>
  PROVE  /\ Tail(q) \in Seq(S) /\ Head(q) \in S /\ Head(q) = q[1] /\ 1 \in DOMAIN q
         /\ \A k \in DOMAIN Tail(q) : \E j \in DOMAIN q : Tail(q)[k] = q[j]
<1>1. PICK len \in Nat : len = Len(q) /\ DOMAIN q = 1 .. len /\ len # 0
  BY LenProperties, EmptySeq
<1>2. PICK rest : rest = Tail(q)
  OBVIOUS
<1>3. /\ rest \in Seq(S) /\ Len(rest) = len - 1 /\ Head(q) \in S /\ Head(q) = q[1]
      /\ \A k \in 1 .. len - 1 : rest[k] = q[k + 1]
  BY <1>1, <1>2, HeadTailProperties, ElementOfSeq
<1>4. DOMAIN rest = 1 .. len - 1
  BY <1>3, LenProperties
<1>5. \A k \in 1 .. len - 1 : k + 1 \in 1 .. len
  BY <1>1
<1> QED
  BY <1>1, <1>2, <1>3, <1>4, <1>5

\* A late date changes the date of its bean only, and may slip.
LEMMA SetDateInv == IInv /\ SetDate => IInv'
<1> SUFFICES ASSUME IInv, SetDate PROVE IInv'
  OBVIOUS
<1>1. PICK d \in Date, b \in {Head(dates).bean} :
        Change(b, [val[b] EXCEPT !.date = d]) /\ Slips(b, [val[b] EXCEPT !.date = d])
  BY DEF SetDate
<1>2. /\ dates # <<>> /\ dates' = Tail(dates)
      /\ array' = array /\ states' = states /\ last' = last /\ initial' = initial
      /\ focus' = focus /\ text' = text /\ result' = result /\ searches' = searches
      /\ lateClick' = lateClick /\ spoiled' = spoiled
  BY DEF SetDate, stateVars
<1>3. dates \in Seq([bean : Bean, name : Nat]) /\ \A k \in DOMAIN dates : dates[k].bean <= last
  BY DEF IInv, TypeOK
<1>4. /\ Tail(dates) \in Seq([bean : Bean, name : Nat])
      /\ Head(dates) \in [bean : Bean, name : Nat] /\ Head(dates) = dates[1] /\ 1 \in DOMAIN dates
      /\ \A k \in DOMAIN Tail(dates) : \E j \in DOMAIN dates : Tail(dates)[k] = dates[j]
  BY <1>2, <1>3, TailFacts
<1>5. b \in Bean /\ b <= last
  BY <1>1, <1>3, <1>4
<1>6. PICK old \in Fields : old = val[b]
  BY <1>5 DEF IInv, TypeOK
<1>7. PICK r : r = [old EXCEPT !.date = d]
  OBVIOUS
<1>8. r \in Fields /\ r.multi = old.multi /\ r.custom = old.custom
  BY <1>7 DEF Fields
<1>9. PICK v : v = Put(val, b, r)
  OBVIOUS
<1>10. Slips(b, r) /\ val' = v
  BY <1>1, <1>6, <1>7, <1>9 DEF Change, Put
<1>11. /\ v \in [Bean -> Fields] /\ v[b] = r /\ \A c \in Bean \ {b} : v[c] = val[c]
       /\ Originals(states, v, initial, slipped') /\ EditedHasMulti(states, v)
       /\ \A c \in Bean : c > last => v[c] = initial[c]
  BY <1>5, <1>6, <1>8, <1>9, <1>10, ChangeFacts
<1>12. TypeOK'
  <2>1. \A k \in DOMAIN Tail(dates) : Tail(dates)[k].bean <= last
    BY <1>3, <1>4
  <2> QED
    BY <1>2, <1>4, <1>10, <1>11, <2>1 DEF IInv, TypeOK
<1>13. NewIsInitial'
  BY <1>2, <1>10, <1>11 DEF NewIsInitial
<1>14. TextInv'
  <2>1. \A c \in Bean : v[c].custom = val[c].custom
    BY <1>6, <1>8, <1>11
  <2> QED
    BY <1>2, <1>10, <2>1, TabsFacts DEF IInv, TextInv
<1>15. Originals(states', val', initial', slipped') /\ EditedHasMulti(states', val')
  BY <1>2, <1>10, <1>11
<1> QED
  BY <1>2, <1>12, <1>13, <1>14, <1>15 DEF IInv

\* The input gets the focus with the bean's value.
LEMMA OnFocusCustomInputInv == IInv /\ OnFocusCustomInput => IInv'
<1> SUFFICES ASSUME IInv, OnFocusCustomInput PROVE IInv'
  OBVIOUS
<1>1. /\ array' = array /\ states' = states /\ last' = last /\ val' = val /\ initial' = initial
      /\ ~focus /\ text' = text /\ result' = result /\ searches' = searches /\ dates' = dates
      /\ slipped' = slipped /\ lateClick' = lateClick /\ spoiled' = spoiled
  BY DEF OnFocusCustomInput, stateVars, history, Editing
<1>2. TypeOK'
  BY <1>1 DEF IInv, TypeOK
<1>3. TextInv'
  BY <1>1 DEF IInv, TextInv
<1> QED
  BY <1>1, <1>2, <1>3 DEF IInv, NewIsInitial

\* A search that has waited long enough changes the list and the result only.
LEMMA DelaySearchInv == IInv /\ DelaySearch => IInv'
<1> SUFFICES ASSUME IInv, DelaySearch PROVE IInv'
  OBVIOUS
<1>1. /\ array' = array /\ states' = states /\ last' = last /\ val' = val /\ initial' = initial
      /\ focus' = focus /\ text' = text /\ dates' = dates
      /\ slipped' = slipped /\ lateClick' = lateClick /\ spoiled' = spoiled
      /\ searches # <<>> /\ searches' = Tail(searches) /\ result' = Head(searches).term
  BY DEF DelaySearch, stateVars, history
<1>2. Tail(searches) \in Seq(SearchType) /\ Head(searches).term \in Term
  <2>1. searches \in Seq(SearchType)
    BY DEF IInv, TypeOK
  <2>2. Tail(searches) \in Seq(SearchType) /\ Head(searches) \in SearchType
    BY <1>1, <2>1, TailFacts
  <2> QED
    BY <2>2 DEF SearchType
<1>3. TypeOK'
  BY <1>1, <1>2 DEF IInv, TypeOK
<1>4. TextInv' /\ NewIsInitial'
  BY <1>1 DEF IInv, TextInv, NewIsInitial
<1> QED
  BY <1>1, <1>3, <1>4 DEF IInv

-----------------------------------------------------------------------------
(* The autocompletion                                                      *)

\* The tabs with other flags of one.
WithFlags(ss, i, x, y) == [ss EXCEPT ![i].onChange = x, ![i].onSelect = y]

\* The flags of a tab change nothing else.
LEMMA FlagFacts ==
  ASSUME IInv, NEW i \in DOMAIN states, NEW x \in BOOLEAN, NEW y \in BOOLEAN,
         NEW ss, ss = WithFlags(states, i, x, y)
  PROVE  /\ Tabs(ss, last) /\ OneSelected(ss) /\ DOMAIN ss = DOMAIN states
         /\ ss[i].onChange = x /\ ss[i].onSelect = y
         /\ \A k \in DOMAIN states :
              /\ ss[k].bean = states[k].bean /\ ss[k].origin = states[k].origin
              /\ ss[k].select = states[k].select /\ ss[k].editMode = states[k].editMode
         /\ \A k \in DOMAIN states : k # i => ss[k] = states[k]
<1>1. PICK old \in StateType : old = states[i]
  BY TabsFacts
<1>2. PICK s : s = [old EXCEPT !.onChange = x, !.onSelect = y]
  OBVIOUS
<1>3. /\ s \in StateType /\ s.bean = old.bean /\ s.origin = old.origin
      /\ s.onChange = x /\ s.onSelect = y
      /\ s.editMode = old.editMode /\ s.select = old.select
  BY <1>2 DEF StateType
<1>4. ss = Put(states, i, s)
  BY <1>1, <1>2 DEF Put, WithFlags
<1>5. Tabs(states, last) /\ OneSelected(states)
  BY DEF IInv
<1>6. /\ Tabs(ss, last) /\ DOMAIN ss = DOMAIN states /\ ss[i] = s
      /\ \A k \in DOMAIN states : k # i => ss[k] = states[k]
      /\ OneSelected(ss)
  BY <1>1, <1>3, <1>4, <1>5, ExceptFacts
<1> QED
  BY <1>1, <1>3, <1>6

\* The parts of the invariant that the flags do not touch.
LEMMA FlagStep ==
  ASSUME IInv, NEW i \in DOMAIN states, NEW x \in BOOLEAN, NEW y \in BOOLEAN,
         NEW ss, ss = WithFlags(states, i, x, y), states' = ss,
         array' = array, last' = last, initial' = initial, dates' = dates, result' = result,
         searches' \in Seq(SearchType),
         NEW v \in [Bean -> Fields], val' = v, Originals(states, v, initial, slipped'),
         EditedHasMulti(states, v), \A c \in Bean : c > last => v[c] = initial[c],
         FlagsAreLate(ss, lateClick'), TextInv'
  PROVE  IInv'
<1>1. /\ Tabs(ss, last) /\ OneSelected(ss) /\ DOMAIN ss = DOMAIN states
      /\ \A k \in DOMAIN states :
           /\ ss[k].bean = states[k].bean /\ ss[k].origin = states[k].origin
           /\ ss[k].editMode = states[k].editMode
  BY FlagFacts
<1>2. Originals(ss, v, initial, slipped')
  <2>1. PICK slip : slip = slipped'
    OBVIOUS
  <2>2. Originals(states, v, initial, slip)
    BY <2>1
  <2>3. Originals(ss, v, initial, slip)
    BY <1>1, <2>2 DEF Originals
  <2> QED
    BY <2>1, <2>3
<1>3. EditedHasMulti(ss, v)
  BY <1>1 DEF EditedHasMulti
<1>4. TypeOK'
  BY DEF IInv, TypeOK
<1>5. NewIsInitial'
  BY DEF NewIsInitial
<1>6. array' = [k \in DOMAIN ss |-> ss[k].bean]
  BY <1>1 DEF IInv
<1>7. /\ Tabs(states', last') /\ OneSelected(states') /\ FlagsAreLate(states', lateClick')
      /\ array' = [k \in DOMAIN states' |-> states'[k].bean]
      /\ Originals(states', val', initial', slipped') /\ EditedHasMulti(states', val')
  BY <1>1, <1>2, <1>3, <1>6
<1> QED
  BY <1>4, <1>5, <1>7 DEF IInv

\* The selected tab is the only one.
LEMMA OnlySelected ==
  ASSUME IInv, NEW i \in DOMAIN states, states[i].select
  PROVE  /\ \A k \in DOMAIN states : states[k].select => k = i
         /\ \A k \in DOMAIN states : k # i => states[k].bean # states[i].bean
BY DEF IInv, OneSelected, Tabs

\* The searches of earlier focuses are searches.
LEMMA EarlierFacts == TypeOK => Earlier \in Seq(SearchType)
<1> SUFFICES ASSUME TypeOK PROVE Earlier \in Seq(SearchType)
  OBVIOUS
<1>1. searches \in Seq(SearchType)
  BY DEF TypeOK
<1>2. searches # <<>> => Front(searches) \in Seq(SearchType)
  <2> SUFFICES ASSUME searches # <<>> PROVE Front(searches) \in Seq(SearchType)
    OBVIOUS
  <2>1. PICK len \in Nat : len = Len(searches) /\ DOMAIN searches = 1 .. len /\ len # 0
    BY <1>1, LenProperties, EmptySeq
  <2>2. \A k \in 1 .. len : searches[k] \in SearchType
    BY <1>1, <2>1, ElementOfSeq
  <2>3. PICK front : front = [k \in 1 .. len - 1 |-> searches[k]]
    OBVIOUS
  <2>4. front \in [1 .. len - 1 -> SearchType] /\ len - 1 \in Nat
    BY <2>1, <2>2, <2>3
  <2>5. front \in Seq(SearchType)
    BY <2>4
  <2>6. Front(searches) = SubSeq(searches, 1, len - 1)
    BY <2>1 DEF Front
  <2>7. SubSeq(searches, 1, len - 1) \in Seq(SearchType)
    BY <1>1, <2>1, <2>2, SubSeqProperties
  <2> QED
    BY <2>6, <2>7
<1> QED
  BY <1>1, <1>2 DEF Earlier

\* A key in the input: from now on the text may differ from the bean's value.
LEMMA OnChangeCustomInputInv == IInv /\ OnChangeCustomInput => IInv'
<1> SUFFICES ASSUME IInv, OnChangeCustomInput PROVE IInv'
  OBVIOUS
<1>1. PICK i \in DOMAIN states, term \in Term \cup {Undefined} :
        /\ states[i].select
        /\ states' = [states EXCEPT ![i].onChange = TRUE]
        /\ IF term = Undefined THEN searches' = Earlier
           ELSE searches' = Append(Earlier, [term |-> term, attached |-> TRUE, current |-> TRUE])
  BY DEF OnChangeCustomInput, Shown
<1>2. /\ array' = array /\ last' = last /\ val' = val /\ initial' = initial
      /\ focus' = focus /\ focus /\ result' = result /\ dates' = dates
      /\ slipped' = slipped /\ lateClick' = lateClick /\ spoiled' = spoiled
  BY DEF OnChangeCustomInput, history
<1>3. searches' \in Seq(SearchType)
  <2>1. PICK q \in Seq(SearchType) : q = Earlier
    BY EarlierFacts DEF IInv
  <2>2. CASE term = Undefined
    BY <1>1, <2>1, <2>2
  <2>3. CASE term # Undefined
    <3>1. [term |-> term, attached |-> TRUE, current |-> TRUE] \in SearchType
      BY <2>3 DEF SearchType
    <3> QED
      BY <1>1, <2>1, <2>3, <3>1, AppendProperties
  <2> QED
    BY <2>2, <2>3
<1>4. PICK old \in StateType : old = states[i]
  BY TabsFacts
<1>5. PICK y \in BOOLEAN : y = old.onSelect
  BY DEF StateType
<1>6. PICK ss : ss = WithFlags(states, i, TRUE, y)
  OBVIOUS
<1>7. states' = ss
  <2>1. PICK s : s = [old EXCEPT !.onChange = TRUE]
    OBVIOUS
  <2>2. s = [old EXCEPT !.onChange = TRUE, !.onSelect = y]
    BY <1>5, <2>1 DEF StateType
  <2> QED
    BY <1>1, <1>4, <1>6, <2>1, <2>2 DEF WithFlags
<1>8. /\ DOMAIN ss = DOMAIN states /\ ss[i].onChange = TRUE /\ ss[i].onSelect = y
      /\ \A k \in DOMAIN states :
           /\ ss[k].bean = states[k].bean /\ ss[k].origin = states[k].origin
           /\ ss[k].select = states[k].select /\ ss[k].editMode = states[k].editMode
      /\ \A k \in DOMAIN states : k # i => ss[k] = states[k]
  <2>1. PICK x \in BOOLEAN : x = TRUE
    OBVIOUS
  <2>2. ss = WithFlags(states, i, x, y)
    BY <1>6, <2>1
  <2>3. /\ DOMAIN ss = DOMAIN states /\ ss[i].onChange = x /\ ss[i].onSelect = y
        /\ \A k \in DOMAIN states :
             /\ ss[k].bean = states[k].bean /\ ss[k].origin = states[k].origin
             /\ ss[k].select = states[k].select /\ ss[k].editMode = states[k].editMode
        /\ \A k \in DOMAIN states : k # i => ss[k] = states[k]
    BY <2>2, FlagFacts
  <2> QED
    BY <2>1, <2>3, Zenon
<1>9. FlagsAreLate(ss, lateClick')
  BY <1>2, <1>4, <1>5, <1>8 DEF IInv, FlagsAreLate
<1>10. TextInv'
  <2>1. \A k \in DOMAIN states : states[k].select => k = i
    BY <1>1, OnlySelected
  <2> QED
    BY <1>2, <1>7, <1>8, <2>1 DEF TextInv
<1>11. /\ val \in [Bean -> Fields] /\ Originals(states, val, initial, slipped')
       /\ EditedHasMulti(states, val) /\ \A c \in Bean : c > last => val[c] = initial[c]
  BY <1>2 DEF IInv, TypeOK, NewIsInitial
<1> QED
  BY <1>2, <1>3, <1>6, <1>7, <1>9, <1>10, <1>11, FlagStep

\* A blur ends the searches of the focus, not their timers.
LEMMA EndedFacts ==
  ASSUME searches \in Seq(SearchType),
         searches' = [k \in DOMAIN searches |-> [searches[k] EXCEPT !.current = FALSE]]
  PROVE  searches' \in Seq(SearchType)
<1>1. PICK len \in Nat : len = Len(searches) /\ DOMAIN searches = 1 .. len
  BY LenProperties
<1>2. \A k \in 1 .. len : searches[k] \in SearchType
  BY <1>1, ElementOfSeq
<1>3. \A s \in SearchType : [s EXCEPT !.current = FALSE] \in SearchType
  BY DEF SearchType
<1>4. searches' \in [1 .. len -> SearchType]
  BY <1>1, <1>2, <1>3
<1> QED
  BY <1>1, <1>4

\* A blur drops the flags of its tab, the late one with them.
LEMMA BlurFacts ==
  ASSUME IInv, NEW i \in DOMAIN states, AfterBlur(i)
  PROVE  /\ states' = WithFlags(states, i, FALSE, FALSE)
         /\ searches' \in Seq(SearchType) /\ focus' = FALSE
         /\ FlagsAreLate(WithFlags(states, i, FALSE, FALSE), lateClick')
<1>1. searches' \in Seq(SearchType)
  BY EndedFacts DEF AfterBlur, IInv, TypeOK
<1>2. PICK ss : ss = WithFlags(states, i, FALSE, FALSE)
  OBVIOUS
<1>3. states' = ss /\ focus' = FALSE /\ lateClick' = lateClick \ {states[i].bean}
  BY <1>2 DEF AfterBlur, WithFlags, BeanOf
<1>4. FALSE \in BOOLEAN
  OBVIOUS
<1>5. /\ DOMAIN ss = DOMAIN states /\ ss[i].onSelect = FALSE
      /\ \A k \in DOMAIN states : ss[k].bean = states[k].bean
      /\ \A k \in DOMAIN states : k # i => ss[k] = states[k]
  <2>1. PICK x \in BOOLEAN : x = FALSE
    OBVIOUS
  <2>2. ss = WithFlags(states, i, x, x)
    BY <1>2, <2>1
  <2> QED
    BY <2>1, <2>2, FlagFacts
<1>6. FlagsAreLate(ss, lateClick \ {states[i].bean})
  <2> SUFFICES ASSUME NEW k \in DOMAIN ss, ss[k].onSelect
               PROVE  ss[k].bean \in lateClick \ {states[i].bean}
    BY DEF FlagsAreLate
  <2>1. k # i /\ k \in DOMAIN states /\ ss[k] = states[k]
    BY <1>5
  <2>2. states[k].bean \in lateClick
    BY <2>1 DEF IInv, FlagsAreLate
  <2>3. states[k].bean # states[i].bean
    BY <2>1 DEF IInv, Tabs
  <2> QED
    BY <2>1, <2>2, <2>3
<1> QED
  BY <1>1, <1>2, <1>3, <1>6

\* A value of the autocompletion: the other fields stay, and the bean may slip.
LEMMA CustomFacts ==
  ASSUME IInv, NEW i \in DOMAIN states, NEW x \in Term \cup {Undefined}, SetCustom(i, x)
  PROVE  \E v \in [Bean -> Fields] :
           /\ val' = v /\ text' = x
           /\ v[states[i].bean].custom = x
           /\ Originals(states, v, initial, slipped') /\ EditedHasMulti(states, v)
           /\ \A c \in Bean : c > last => v[c] = initial[c]
<1>1. PICK b \in Bean : b = states[i].bean /\ b <= last
  BY TabsFacts
<1>2. PICK old \in Fields : old = val[b]
  BY DEF IInv, TypeOK
<1>3. PICK r : r = [old EXCEPT !.custom = x]
  OBVIOUS
<1>4. r \in Fields /\ r.multi = old.multi /\ r.custom = x
  BY <1>3 DEF Fields
<1>5. PICK v : v = Put(val, b, r)
  OBVIOUS
<1>6. Slips(b, r) /\ val' = v /\ text' = x
  BY <1>1, <1>2, <1>3, <1>5 DEF SetCustom, Change, Put, BeanOf
<1>7. /\ v \in [Bean -> Fields] /\ v[b] = r /\ \A c \in Bean \ {b} : v[c] = val[c]
      /\ Originals(states, v, initial, slipped') /\ EditedHasMulti(states, v)
      /\ \A c \in Bean : c > last => v[c] = initial[c]
  BY <1>1, <1>2, <1>4, <1>5, <1>6, ChangeFacts
<1> QED
  BY <1>1, <1>4, <1>6, <1>7

\* Leaving the input: what was not selected is erased, what was is the bean's
\* value, and the flag of a late click is known.
LEMMA OnBlurCustomInputInv == IInv /\ OnBlurCustomInput => IInv'
<1> SUFFICES ASSUME IInv, OnBlurCustomInput PROVE IInv'
  OBVIOUS
<1>1. PICK i \in DOMAIN states :
        /\ states[i].select
        /\ IF states[i].onChange /\ ~states[i].onSelect
           THEN SetCustom(i, Undefined) /\ spoiled' = FALSE
           ELSE /\ spoiled' = (spoiled \/ (states[i].onChange /\ states[i].bean \in lateClick))
                /\ val' = val /\ text' = text /\ slipped' = slipped
        /\ AfterBlur(i)
  BY DEF OnBlurCustomInput, Shown, BeanOf
<1>2. array' = array /\ last' = last /\ initial' = initial /\ result' = result /\ dates' = dates
  BY DEF OnBlurCustomInput
<1>3. PICK ss : ss = WithFlags(states, i, FALSE, FALSE)
  OBVIOUS
<1>4. states' = ss /\ searches' \in Seq(SearchType) /\ focus' = FALSE /\ FlagsAreLate(ss, lateClick')
  BY <1>1, <1>3, BlurFacts
<1>5. FALSE \in BOOLEAN
  OBVIOUS
<1>6. /\ DOMAIN ss = DOMAIN states
      /\ \A k \in DOMAIN states :
           ss[k].bean = states[k].bean /\ ss[k].select = states[k].select
  <2>1. PICK x \in BOOLEAN : x = FALSE
    OBVIOUS
  <2>2. ss = WithFlags(states, i, x, x)
    BY <1>3, <2>1
  <2> QED
    BY <2>2, FlagFacts
<1>7. \A k \in DOMAIN states : states[k].select => k = i
  BY <1>1, OnlySelected
<1>8. CASE states[i].onChange /\ ~states[i].onSelect
  <2>1. SetCustom(i, Undefined)
    BY <1>1, <1>8
  <2>2. PICK v \in [Bean -> Fields] :
          /\ val' = v /\ text' = Undefined
          /\ v[states[i].bean].custom = Undefined
          /\ Originals(states, v, initial, slipped') /\ EditedHasMulti(states, v)
          /\ \A c \in Bean : c > last => v[c] = initial[c]
    BY <2>1, CustomFacts
  <2>3. TextInv'
    BY <1>4, <1>6, <1>7, <2>2 DEF TextInv
  <2> QED
    BY <1>2, <1>3, <1>4, <1>5, <2>2, <2>3, FlagStep
<1>9. CASE ~ (states[i].onChange /\ ~states[i].onSelect)
  <2>1. /\ spoiled' = (spoiled \/ (states[i].onChange /\ states[i].bean \in lateClick))
        /\ val' = val /\ text' = text /\ slipped' = slipped
    BY <1>1, <1>9
  <2>2. /\ val \in [Bean -> Fields] /\ Originals(states, val, initial, slipped')
        /\ EditedHasMulti(states, val) /\ \A c \in Bean : c > last => val[c] = initial[c]
    BY <2>1 DEF IInv, TypeOK, NewIsInitial
  <2>3. ASSUME ~spoiled' PROVE text = val[states[i].bean].custom
    <3>1. ~spoiled /\ ~ (states[i].onChange /\ states[i].bean \in lateClick)
      BY <2>1, <2>3
    <3>2. ~ states[i].onChange
      BY <1>9, <3>1 DEF IInv, FlagsAreLate
    <3> QED
      BY <1>1, <3>1, <3>2 DEF IInv, TextInv
  <2>4. TextInv'
    BY <1>4, <1>6, <1>7, <2>1, <2>3 DEF TextInv
  <2> QED
    BY <1>2, <1>3, <1>4, <1>5, <2>1, <2>2, <2>4, FlagStep
<1> QED
  BY <1>8, <1>9

\* A selection: the bean and the text become what the last search has found.
LEMMA OnSelectCustomInputInv == IInv /\ OnSelectCustomInput => IInv'
<1> SUFFICES ASSUME IInv, OnSelectCustomInput PROVE IInv'
  OBVIOUS
<1>1. PICK i \in DOMAIN states : states[i].select /\ SetCustom(i, result) /\ AfterBlur(i)
  BY DEF OnSelectCustomInput, Shown
<1>2. array' = array /\ last' = last /\ initial' = initial /\ result' = result /\ dates' = dates
  BY DEF OnSelectCustomInput
<1>3. PICK ss : ss = WithFlags(states, i, FALSE, FALSE)
  OBVIOUS
<1>4. states' = ss /\ searches' \in Seq(SearchType) /\ focus' = FALSE /\ FlagsAreLate(ss, lateClick')
  BY <1>1, <1>3, BlurFacts
<1>5. FALSE \in BOOLEAN
  OBVIOUS
<1>6. /\ DOMAIN ss = DOMAIN states
      /\ \A k \in DOMAIN states :
           ss[k].bean = states[k].bean /\ ss[k].select = states[k].select
  <2>1. PICK x \in BOOLEAN : x = FALSE
    OBVIOUS
  <2>2. ss = WithFlags(states, i, x, x)
    BY <1>3, <2>1
  <2> QED
    BY <2>2, FlagFacts
<1>7. \A k \in DOMAIN states : states[k].select => k = i
  BY <1>1, OnlySelected
<1>8. PICK x \in Term \cup {Undefined} : x = result
  BY DEF IInv, TypeOK
<1>9. PICK v \in [Bean -> Fields] :
        /\ val' = v /\ text' = x /\ v[states[i].bean].custom = x
        /\ Originals(states, v, initial, slipped') /\ EditedHasMulti(states, v)
        /\ \A c \in Bean : c > last => v[c] = initial[c]
  BY <1>1, <1>8, CustomFacts
<1>10. TextInv'
  BY <1>4, <1>6, <1>7, <1>9 DEF TextInv
<1> QED
  BY <1>2, <1>3, <1>4, <1>5, <1>9, <1>10, FlagStep

\* A click on a late list leaves its flag behind.
LEMMA OnSelectLateInputInv == IInv /\ OnSelectLateInput => IInv'
<1> SUFFICES ASSUME IInv, OnSelectLateInput PROVE IInv'
  OBVIOUS
<1>1. PICK i \in DOMAIN states :
        /\ states[i].select /\ SetCustom(i, result)
        /\ states' = [states EXCEPT ![i].onSelect = TRUE]
        /\ lateClick' = lateClick \cup {states[i].bean}
  BY DEF OnSelectLateInput, Editing, Shown, BeanOf
<1>2. /\ array' = array /\ last' = last /\ initial' = initial /\ result' = result
      /\ dates' = dates /\ focus' = focus /\ searches' = searches
  BY DEF OnSelectLateInput
<1>3. PICK old \in StateType : old = states[i]
  BY TabsFacts
<1>4. PICK y \in BOOLEAN : y = old.onChange
  BY DEF StateType
<1>5. PICK ss : ss = WithFlags(states, i, y, TRUE)
  OBVIOUS
<1>6. states' = ss
  <2>1. PICK s : s = [old EXCEPT !.onSelect = TRUE]
    OBVIOUS
  <2>2. s = [old EXCEPT !.onChange = y, !.onSelect = TRUE]
    BY <1>4, <2>1 DEF StateType
  <2> QED
    BY <1>1, <1>3, <1>5, <2>1, <2>2 DEF WithFlags
<1>7. TRUE \in BOOLEAN
  OBVIOUS
<1>8. /\ DOMAIN ss = DOMAIN states
      /\ \A k \in DOMAIN states :
           ss[k].bean = states[k].bean /\ ss[k].select = states[k].select
      /\ \A k \in DOMAIN states : k # i => ss[k] = states[k]
  <2>1. PICK x \in BOOLEAN : x = TRUE
    OBVIOUS
  <2>2. ss = WithFlags(states, i, y, x)
    BY <1>5, <2>1
  <2> QED
    BY <2>2, FlagFacts
<1>9. FlagsAreLate(ss, lateClick')
  BY <1>1, <1>8 DEF IInv, FlagsAreLate
<1>10. \A k \in DOMAIN states : states[k].select => k = i
  BY <1>1, OnlySelected
<1>11. PICK x \in Term \cup {Undefined} : x = result
  BY DEF IInv, TypeOK
<1>12. PICK v \in [Bean -> Fields] :
         /\ val' = v /\ text' = x /\ v[states[i].bean].custom = x
         /\ Originals(states, v, initial, slipped') /\ EditedHasMulti(states, v)
         /\ \A c \in Bean : c > last => v[c] = initial[c]
  BY <1>1, <1>11, CustomFacts
<1>13. TextInv'
  BY <1>6, <1>8, <1>10, <1>12 DEF TextInv
<1>14. searches' \in Seq(SearchType)
  BY <1>2 DEF IInv, TypeOK
<1> QED
  BY <1>2, <1>4, <1>5, <1>6, <1>7, <1>9, <1>12, <1>13, <1>14, FlagStep

-----------------------------------------------------------------------------
(* The specification                                                       *)

\* What bindArray and the first render() leave.
LEMMA InitInv == Init => IInv
<1> SUFFICES ASSUME Init PROVE IInv
  OBVIOUS
<1>1. PICK n \in {k \in 0 .. 2 : k <= MaxBean} :
        /\ array = [i \in 1 .. (IF n = 0 THEN 1 ELSE n) |-> i]
        /\ states = ToggleBean([i \in DOMAIN array |-> NewState(i, FALSE, FALSE)], 0)
        /\ val = [b \in Bean |-> IF b <= n THEN [NewBean EXCEPT !.input = Bound[b],
                                                                !.multi = <<"text">>]
                                 ELSE NewBean]
        /\ last = Len(array)
        /\ initial = val
  BY DEF Init
<1>2. /\ focus = FALSE /\ text = Undefined /\ result = Undefined
      /\ searches = <<>> /\ dates = <<>> /\ lateClick = {} /\ spoiled = FALSE
  BY DEF Init
<1>3. PICK len : len = IF n = 0 THEN 1 ELSE n
  OBVIOUS
<1>4. len \in Nat /\ len # 0 /\ len <= MaxBean /\ MaxBean \in Nat
  <2>1. MaxBean \in Nat \ {0}
    BY BeanAssumption
  <2>2. n \in 0 .. 2 /\ n <= MaxBean
    BY <1>1
  <2> QED
    BY <1>3, <2>1, <2>2
<1>5. array = [i \in 1 .. len |-> i]
  BY <1>1, <1>3
<1>6. last = len /\ last \in Bean /\ 1 .. len \subseteq Bean
  <2>1. Len(array) = len
    BY <1>4, <1>5
  <2>2. last = Len(array)
    BY <1>1
  <2> QED
    BY <1>4, <2>1, <2>2 DEF Bean
<1>7. PICK new : new = [i \in 1 .. len |-> NewState(i, FALSE, FALSE)]
  OBVIOUS
<1>8. \A i \in 1 .. len : /\ new[i] \in StateType /\ new[i].bean = i
                          /\ new[i].origin = Nobody /\ ~new[i].editMode /\ ~new[i].onSelect
  BY <1>6, <1>7 DEF NewState, StateType
<1>9. new \in Seq(StateType) /\ DOMAIN new = 1 .. len /\ new # <<>>
  <2>1. new \in [1 .. len -> StateType]
    BY <1>7, <1>8
  <2>2. new \in Seq(StateType) /\ Len(new) = len
    BY <1>4, <2>1
  <2> QED
    BY <1>4, <1>7, <2>2, EmptySeq
<1>10. Tabs(new, len)
  BY <1>8, <1>9 DEF Tabs
<1>11. states = ToggleBean(new, 0) /\ 0 \in Nat
  BY <1>1, <1>5, <1>7
<1>12. Tabs(states, len) /\ OneSelected(states) /\ SelectionAside(states, new)
  BY <1>9, <1>10, <1>11, ToggleFacts
<1>13. DOMAIN states = 1 .. len /\ \A i \in 1 .. len :
         /\ states[i].bean = i /\ states[i].origin = Nobody
         /\ ~states[i].editMode /\ ~states[i].onSelect
  BY <1>8, <1>9, <1>12, Zenon DEF SelectionAside
<1>14. NewBean \in Fields /\ \A b \in Bean : [NewBean EXCEPT !.input = Bound[b], !.multi = <<"text">>] \in Fields
  <2>1. <<"text">> \in Seq(Single)
    BY DEF Single
  <2> QED
    BY <2>1, BeanAssumption DEF NewBean, Fields, Plain, Input
<1>15. val \in [Bean -> Fields] /\ \A b \in Bean : val[b].custom = Undefined
  <2>1. /\ NewBean.custom = Undefined
        /\ \A b \in Bean : [NewBean EXCEPT !.input = Bound[b], !.multi = <<"text">>].custom = Undefined
    BY DEF NewBean
  <2> QED
    BY <1>1, <1>14, <2>1
<1>16. TypeOK
  <2>1. initial = val
    BY <1>1
  <2> QED
    BY <1>2, <1>6, <1>15, <2>1 DEF TypeOK
<1>17. Originals(states, val, initial, slipped)
  BY <1>1, <1>13 DEF Originals
<1>18. EditedHasMulti(states, val) /\ FlagsAreLate(states, lateClick)
  BY <1>13 DEF EditedHasMulti, FlagsAreLate
<1>19. NewIsInitial
  BY <1>1 DEF NewIsInitial
<1>20. TextInv
  BY <1>2, <1>6, <1>13, <1>15 DEF TextInv
<1>21. array = [i \in DOMAIN states |-> states[i].bean]
  BY <1>5, <1>13
<1> QED
  BY <1>6, <1>12, <1>16, <1>17, <1>18, <1>19, <1>20, <1>21 DEF IInv

\* Every step of the editor preserves the invariant.
LEMMA NextInv == IInv /\ [Next]_vars => IInv'
<1> SUFFICES ASSUME IInv, [Next]_vars PROVE IInv'
  OBVIOUS
<1>1. CASE UNCHANGED vars
  BY <1>1 DEF vars, stateVars, inputVars, history, IInv, TypeOK, NewIsInitial, TextInv
<1>2. CASE Next
  BY <1>2, OnToggleBeanInv, OnAddBeanInv, OnDeleteBeanInv, OnRestoreBeanInv, OnEditModeInv,
     OnViewModeInv, OnChangeInputInv, OnLeaveNumberInv, OnAddInputInv, OnBlurDatePickerInputInv, SetDateInv,
     OnFocusCustomInputInv, OnChangeCustomInputInv, DelaySearchInv, OnBlurCustomInputInv,
     OnSelectCustomInputInv, OnSelectLateInputInv DEF Next
<1> QED
  BY <1>1, <1>2

\* The invariant holds in every reachable state.
LEMMA SpecInv == Spec => []IInv
BY InitInv, NextInv, PTL DEF Spec

\* The tabs are the beans of the bound array, in its order, and one of them is
\* selected, through onAddBean, onDeleteBean and the renaming that follows it.
THEOREM TabsAreTheArray == Spec => []TabsAreArray
<1>1. IInv => TabsAreArray
  BY DEF IInv, OneSelected, TabsAreArray, BeanOf
<1> QED
  BY <1>1, SpecInv, PTL

\* onRestoreBean gives back what was bound: an original is the initial value
\* of its bean, and a bean that keeps none still has it.  Not said of the beans
\* in slipped, which OK, a late date, the autocompletion or the blur of an
\* unchanged number (UIBean.js:280) changed while they kept no original.
THEOREM RestoreIsBound == Spec => []OriginIsInitial
<1>1. IInv => OriginIsInitial
  BY DEF IInv, Originals, OriginIsInitial, BeanOf
<1> QED
  BY <1>1, SpecInv, PTL

\* After the blur of an autocompletion, and after every render(), its text is
\* the value of the bean, unless a list was clicked after an earlier blur.
THEOREM TextIsTheBeans == Spec => []TextIsValue
<1>1. IInv => TextIsValue
  BY DEF IInv, TextInv, TextIsValue, Shown, BeanOf
<1> QED
  BY <1>1, SpecInv, PTL

-----------------------------------------------------------------------------
(* The dates                                                               *)

\* render() changes no date.
LEMMA RenderDates ==
  ASSUME NEW fields \in [Bean -> Fields], NEW ss, Render(fields, ss)
  PROVE  /\ \A b \in Bean : val'[b].date = fields[b].date
         /\ \A b \in Bean : fields[b].multi # Undefined => val'[b] = fields[b]
<1>1. val' = Filled(fields, ss)
  BY DEF Render
<1>2. PICK v : v = Filled(fields, ss)
  OBVIOUS
<1>3. /\ \A b \in Bean : v[b].date = fields[b].date
      /\ \A b \in Bean : fields[b].multi # Undefined => v[b] = fields[b]
  BY <1>2, FilledFacts
<1> QED
  BY <1>1, <1>2, <1>3

\* A change of another field leaves the date.
LEMMA OtherField ==
  ASSUME val \in [Bean -> Fields], NEW i, NEW r, Change(BeanOf(i), r),
         r.date = val[BeanOf(i)].date
  PROVE  \A b \in Bean : val'[b].date = val[b].date
BY DEF Change

\* A step that is neither a late date nor a restore changes no date.
LEMMA DatesStay ==
  ASSUME IInv, Next, ~SetDate, ~OnRestoreBean
  PROVE  \A b \in Bean : val'[b].date = val[b].date
<1>1. val \in [Bean -> Fields]
  BY DEF IInv, TypeOK
<1>2. CASE \E ss : Render(val, ss)
  BY <1>1, <1>2, RenderDates
<1>3. CASE val' = val
  BY <1>3
<1>4. CASE OnToggleBean
  BY <1>2, <1>4 DEF OnToggleBean
<1>5. CASE OnAddBean
  BY <1>2, <1>5 DEF OnAddBean
<1>6. CASE OnDeleteBean
  BY <1>2, <1>6 DEF OnDeleteBean
<1>7. CASE OnEditMode
  BY <1>2, <1>7 DEF OnEditMode
<1>8. CASE OnViewMode
  <2>1. PICK i \in DOMAIN states :
          \E ss : Render([val EXCEPT ![BeanOf(i)] = [val[BeanOf(i)] EXCEPT
                            !.multi = Trimmed(@), !.input = Validated(@)]], ss)
          /\ states[i].editMode
    BY <1>8 DEF OnViewMode, Editing
  <2>2. PICK b \in Bean : b = BeanOf(i)
    BY TabsFacts DEF BeanOf
  <2>3. PICK old \in Fields : old = val[b]
    BY <1>1
  <2>4. old.multi # Undefined /\ old.multi \in Seq(Single)
    <3>1. old.multi # Undefined
      BY <2>1, <2>2, <2>3 DEF IInv, EditedHasMulti, BeanOf
    <3> QED
      BY <3>1, FieldsFacts
  <2>5. PICK t \in Seq(Single) : t = Trimmed(old.multi)
    BY <2>4, TrimmedFacts
  <2>6. PICK r : r = [old EXCEPT !.multi = t, !.input = Validated(@)]
    OBVIOUS
  <2>7. r \in Fields /\ r.date = old.date
    <3>1. PICK p \in Plain \cup {Undefined} : p = Validated(old.input)
      <4>1. old.input \in Plain \cup {Undefined}
        BY FieldsFacts
      <4> QED
        BY <4>1 DEF Validated, Plain, Input
    <3>2. r = [old EXCEPT !.multi = t, !.input = p]
      BY <2>6, <3>1
    <3> QED
      BY <3>2 DEF Fields
  <2>8. PICK fields : fields = [val EXCEPT ![b] = r]
    OBVIOUS
  <2>9. fields \in [Bean -> Fields] /\ \A c \in Bean : fields[c].date = val[c].date
    BY <1>1, <2>3, <2>7, <2>8
  <2>10. PICK ss : Render(fields, ss)
    BY <2>1, <2>2, <2>3, <2>5, <2>6, <2>8
  <2> QED
    BY <2>9, <2>10, RenderDates
<1>9. CASE OnChangeInput
  <2>1. PICK i \in DOMAIN states :
          \/ \E x \in Input : Change(BeanOf(i), [val[BeanOf(i)] EXCEPT !.input = x])
          \/ \E k \in DOMAIN val[BeanOf(i)].multi : \E x \in Single :
               Change(BeanOf(i), [val[BeanOf(i)] EXCEPT !.multi[k] = x])
    BY <1>9 DEF OnChangeInput
  <2>2. val[BeanOf(i)] \in Fields
    BY <1>1, TabsFacts DEF BeanOf
  <2>3. PICK r : Change(BeanOf(i), r) /\ r.date = val[BeanOf(i)].date
    <3>1. \A x : [val[BeanOf(i)] EXCEPT !.input = x].date = val[BeanOf(i)].date
      BY <2>2 DEF Fields
    <3>2. \A k, x : [val[BeanOf(i)] EXCEPT !.multi[k] = x].date = val[BeanOf(i)].date
      BY <2>2 DEF Fields
    <3> QED
      BY <2>1, <3>1, <3>2
  <2> QED
    BY <1>1, <2>3, OtherField
<1>20. CASE OnLeaveNumber
  <2>1. PICK i \in DOMAIN states : Change(BeanOf(i), [val[BeanOf(i)] EXCEPT !.input = "good"])
    BY <1>20 DEF OnLeaveNumber
  <2>2. val[BeanOf(i)] \in Fields
    BY <1>1, TabsFacts DEF BeanOf
  <2>3. PICK r : r = [val[BeanOf(i)] EXCEPT !.input = "good"]
    OBVIOUS
  <2>4. r.date = val[BeanOf(i)].date
    BY <2>2, <2>3 DEF Fields
  <2> QED
    BY <1>1, <2>1, <2>3, <2>4, OtherField
<1>10. CASE OnAddInput
  <2>1. PICK i \in DOMAIN states :
          Change(BeanOf(i), [val[BeanOf(i)] EXCEPT !.multi = Append(@, "")])
    BY <1>10 DEF OnAddInput
  <2>2. val[BeanOf(i)] \in Fields
    BY <1>1, TabsFacts DEF BeanOf
  <2>3. PICK r : r = [val[BeanOf(i)] EXCEPT !.multi = Append(@, "")]
    OBVIOUS
  <2>4. r.date = val[BeanOf(i)].date
    BY <2>2, <2>3 DEF Fields
  <2> QED
    BY <1>1, <2>1, <2>3, <2>4, OtherField
<1>11. CASE OnBlurDatePickerInput \/ OnFocusCustomInput \/ OnChangeCustomInput \/ DelaySearch
  BY <1>3, <1>11 DEF OnBlurDatePickerInput, OnFocusCustomInput, OnChangeCustomInput, DelaySearch
<1>12. CASE \E i \in DOMAIN states : \E x : SetCustom(i, x)
  <2>1. PICK i \in DOMAIN states : \E x : SetCustom(i, x)
    BY <1>12
  <2>2. PICK x : SetCustom(i, x)
    BY <2>1
  <2>3. val[BeanOf(i)] \in Fields
    BY <1>1, TabsFacts DEF BeanOf
  <2>4. PICK r : r = [val[BeanOf(i)] EXCEPT !.custom = x]
    OBVIOUS
  <2>5. r.date = val[BeanOf(i)].date
    BY <2>3, <2>4 DEF Fields
  <2>6. Change(BeanOf(i), r)
    BY <2>2, <2>4 DEF SetCustom
  <2> QED
    BY <1>1, <2>5, <2>6, OtherField
<1>13. CASE OnBlurCustomInput
  <2>1. (\E i \in DOMAIN states : SetCustom(i, Undefined)) \/ val' = val
    BY <1>13 DEF OnBlurCustomInput
  <2> QED
    BY <1>3, <1>12, <2>1
<1>14. CASE OnSelectCustomInput \/ OnSelectLateInput
  <2>1. \E i \in DOMAIN states : SetCustom(i, result)
    BY <1>14 DEF OnSelectCustomInput, OnSelectLateInput
  <2> QED
    BY <1>12, <2>1
<1> QED
  BY <1>4, <1>5, <1>6, <1>7, <1>8, <1>9, <1>10, <1>20, <1>11, <1>13, <1>14 DEF Next

\* A date changes by its own timer, for the bean that the blur had looked up,
\* or by a restore of the bean: no renaming of tabs sends it to another.
THEOREM LateDateFindsItsBean == Spec => DateReachesItsBean
<1> DEFINE Reaches ==
      \A b \in Bean : val'[b].date # val[b].date =>
        \/ dates # <<>> /\ dates' = Tail(dates) /\ b = Head(dates).bean
        \/ \E i \in DOMAIN states : BeanOf(i) = b /\ val'[b] = states[i].origin
<1>1. ASSUME IInv, SetDate PROVE Reaches
  <2>1. PICK d \in Date : Change(Head(dates).bean, [val[Head(dates).bean] EXCEPT !.date = d])
    BY <1>1 DEF SetDate
  <2>2. \A b \in Bean : b # Head(dates).bean => val'[b] = val[b]
    BY <1>1, <2>1 DEF Change, IInv, TypeOK
  <2> QED
    BY <1>1, <2>2 DEF SetDate
<1>2. ASSUME IInv, OnRestoreBean PROVE Reaches
  <2>1. PICK i \in DOMAIN states :
          Render(IF states[i].origin = Nobody THEN val
                 ELSE [val EXCEPT ![states[i].bean] = states[i].origin], states)
    BY <1>2 DEF OnRestoreBean, BeanOf
  <2>2. PICK o \in Fields \cup {Nobody} : o = states[i].origin
    <3>1. states[i] \in StateType
      BY <1>2, TabsFacts
    <3> QED
      BY <3>1 DEF StateType
  <2>3. PICK b \in Bean : b = states[i].bean
    BY <1>2, TabsFacts
  <2>4. PICK fields : fields = IF o = Nobody THEN val ELSE [val EXCEPT ![b] = o]
    OBVIOUS
  <2>5. /\ fields \in [Bean -> Fields] /\ \A c \in Bean \ {b} : fields[c] = val[c]
        /\ fields[b] = IF o = Nobody THEN val[b] ELSE o
    BY <1>2, <2>2, <2>4 DEF IInv, TypeOK
  <2>6. Render(fields, states)
    BY <2>1, <2>2, <2>3, <2>4
  <2>7. /\ \A c \in Bean : val'[c].date = fields[c].date
        /\ \A c \in Bean : fields[c].multi # Undefined => val'[c] = fields[c]
    BY <2>5, <2>6, RenderDates
  <2>8. o # Nobody => o.multi # Undefined
    BY <1>2, <2>2 DEF IInv, Originals
  <2>9. \A c \in Bean : val'[c].date # val[c].date => c = b /\ val'[b] = o
    BY <2>5, <2>7, <2>8
  <2> QED
    BY <2>2, <2>3, <2>9 DEF BeanOf
<1>3. ASSUME IInv, [Next]_vars PROVE [Reaches]_vars
  <2>1. CASE Next /\ ~SetDate /\ ~OnRestoreBean
    BY <1>3, <2>1, DatesStay
  <2>2. CASE UNCHANGED vars
    BY <2>2
  <2> QED
    BY <1>1, <1>2, <1>3, <2>1, <2>2
<1>4. Spec => [][Reaches]_vars
  BY <1>3, SpecInv, PTL DEF Spec
<1> QED
  BY <1>4 DEF DateReachesItsBean

=============================================================================
