--------------------------- MODULE WorkspaceProofs ---------------------------
(***************************************************************************)
(* The stack of views and its crumbs belong together, and the page shows   *)
(* the top of the stack, whatever components there are and however many    *)
(* views are opened and left.                                              *)
(***************************************************************************)
EXTENDS Workspace, SequenceTheorems, WellFoundedInduction, TLAPS

-----------------------------------------------------------------------------
(* The inductive invariant                                                 *)

\* The views and their owner are objects that have been made.
MadeInv ==
  /\ \A k \in DOMAIN views : views[k] <= last
  /\ Len(views) <= last /\ owner <= last

IInv == TypeOK /\ MadeInv /\ CrumbsMatchViews /\ TopIsShown

\* What becomes of the stack, for any step.
StackInv ==
  /\ MadeInv /\ CrumbsMatchViews
  /\ views # <<>> => content = Top /\ listening = {Top}
  /\ views \in Seq(Object) /\ crumbs \in Seq(Label)
  /\ disabled \in SUBSET Object /\ listening \in SUBSET Object
  /\ content \in 0 .. MaxObject /\ last \in 0 .. MaxObject
  /\ label \in [Object -> Label]
  /\ owner \in 0 .. MaxObject

USE WorkspaceAssumption DEF Object, pageVars

-----------------------------------------------------------------------------
(* Helpers                                                                 *)

\* The search for a label finds the topmost place there is, or none.
LEMMA TopmostFacts ==
  ASSUME NEW len \in Nat, NEW found, found \subseteq 1 .. len
  PROVE  /\ Topmost(found) \in found \cup {0}
         /\ \A m \in found : m <= Topmost(found)
<1>1. \E n \in found \cup {0} : \A m \in found : m <= n
  <2>1. CASE found = {}
    BY <2>1
  <2>2. CASE found # {}
    <3> DEFINE T == {len - n : n \in found}
               Less == OpToRel(<, Nat)
    <3>0. \A n \in found : len - n \in Nat
      OBVIOUS
    <3>1. T \subseteq Nat /\ T # {}
      <4>1. T \subseteq Nat
        BY <3>0
      <4>2. PICK n \in found : TRUE
        BY <2>2
      <4>3. len - n \in T
        BY <4>2
      <4> QED
        BY <4>1, <4>3
    <3> HIDE DEF T, Less
    <3>2. \E x \in T : \A y \in T : ~ (<<y, x>> \in Less)
      BY <3>1, WFMin, NatLessThanWellFounded DEF Less
    <3> USE DEF T
    <3>3. PICK n \in found : \A m \in found : ~ (<<len - m, len - n>> \in Less)
      BY <3>2
    <3>4. \A m \in found : ~ (len - m < len - n)
      BY <3>1, <3>3 DEF Less, OpToRel
    <3> QED
      BY <3>4
  <2> QED
    BY <2>1, <2>2
<1> QED
  BY <1>1 DEF Topmost

\* The lower part of a stack.
LEMMA LowerPart ==
  ASSUME NEW S, NEW s \in Seq(S), NEW n \in 0 .. Len(s)
  PROVE  /\ SubSeq(s, 1, n) \in Seq(S)
         /\ Len(SubSeq(s, 1, n)) = n
         /\ \A i \in 1 .. n : SubSeq(s, 1, n)[i] = s[i]
<1>1. \A i \in 1 .. n : s[i] \in S
  OBVIOUS
<1>2. /\ SubSeq(s, 1, n) \in Seq(S)
      /\ Len(SubSeq(s, 1, n)) = IF 1 <= n THEN n - 1 + 1 ELSE 0
      /\ \A i \in 1 .. n - 1 + 1 : SubSeq(s, 1, n)[i] = s[1 + i - 1]
  BY <1>1, SubSeqProperties
<1> QED
  BY <1>2

-----------------------------------------------------------------------------
(* What happens to the stack                                               *)

\* A new view is put on top, under it nothing changes.
LEMMA PushStep ==
  ASSUME NEW vs \in Seq(Object), NEW cs \in Seq(Label), NEW l \in Label, NEW o \in Object,
         label \in [Object -> Label],
         Len(cs) = Len(vs), Len(vs) < o,
         \A k \in 1 .. Len(vs) : vs[k] < o /\ cs[k] = label[vs[k]],
         last' = o, owner' \in 0 .. o,
         PushOn(vs, cs, l, o)
  PROVE  StackInv'
<1>1. /\ Len(vs) \in Nat
      /\ views' = Append(vs, o) /\ crumbs' = Append(cs, l)
      /\ Len(views') = Len(vs) + 1 /\ Len(crumbs') = Len(vs) + 1
      /\ DOMAIN views' = 1 .. Len(vs) + 1
      /\ \A k \in 1 .. Len(vs) : views'[k] = vs[k] /\ crumbs'[k] = cs[k]
      /\ views'[Len(vs) + 1] = o /\ crumbs'[Len(vs) + 1] = l
  BY DEF PushOn
<1>2. views' \in Seq(Object) /\ crumbs' \in Seq(Label)
  BY <1>1
<1>3. label' \in [Object -> Label] /\ label' = [label EXCEPT ![o] = l]
  BY DEF PushOn
<1>4. disabled' = {Len(vs) + 1} /\ content' = o /\ listening' = {o}
  BY DEF PushOn
<1>5. views' # <<>>
  <2>1. views' = <<>> => Len(views') = 0
    OBVIOUS
  <2>2. Len(vs) + 1 # 0
    BY <1>1
  <2> QED
    BY <1>1, <2>1, <2>2
<1>6. MadeInv'
  BY <1>1 DEF MadeInv
<1>7. CrumbsMatchViews'
  <2>1. \A k \in 1 .. Len(vs) + 1 : crumbs'[k] = label'[views'[k]]
    <3>1. label'[o] = l
      BY <1>3
    <3>2. \A k \in 1 .. Len(vs) : vs[k] \in Object /\ label'[vs[k]] = label[vs[k]]
      BY <1>3
    <3>3. \A k \in 1 .. Len(vs) : crumbs'[k] = label'[views'[k]]
      BY <1>1, <3>2
    <3> QED
      BY <1>1, <3>1, <3>3
  <2> QED
    BY <1>1, <1>4, <1>5, <2>1 DEF CrumbsMatchViews
<1>8. content' = Top' /\ listening' = {Top'}
  BY <1>1, <1>4 DEF Top
<1>9. disabled' \in SUBSET Object
  BY <1>1, <1>4
<1> QED
  BY <1>2, <1>3, <1>4, <1>6, <1>7, <1>8, <1>9 DEF StackInv

\* The views above some place are popped.
LEMMA RemoveStep ==
  ASSUME StackInv, NEW n \in 0 .. Len(views), RemoveTo(n)
  PROVE  StackInv'
<1> USE DEF StackInv
<1>1. /\ views' = SubSeq(views, 1, n) /\ crumbs' = SubSeq(crumbs, 1, n)
      /\ UNCHANGED <<owner, label, last>>
  BY DEF RemoveTo
<1>2. /\ Len(views) \in Nat /\ Len(crumbs) = Len(views)
      /\ \A k \in 1 .. Len(views) : crumbs[k] = label[views[k]] /\ views[k] <= last
  BY DEF CrumbsMatchViews, MadeInv
<1>3. /\ views' \in Seq(Object) /\ crumbs' \in Seq(Label)
      /\ Len(views') = n /\ Len(crumbs') = n
      /\ \A k \in 1 .. n : views'[k] = views[k] /\ crumbs'[k] = crumbs[k]
  <2>1. n \in 0 .. Len(crumbs)
    BY <1>2
  <2>2. views' \in Seq(Object) /\ Len(views') = n /\ \A k \in 1 .. n : views'[k] = views[k]
    BY <1>1, LowerPart
  <2>3. crumbs' \in Seq(Label) /\ Len(crumbs') = n /\ \A k \in 1 .. n : crumbs'[k] = crumbs[k]
    BY <1>1, <2>1, LowerPart
  <2> QED
    BY <2>2, <2>3
<1>4. DOMAIN views' = 1 .. n /\ (views' = <<>> <=> n = 0)
  BY <1>3
<1>5. /\ disabled' = IF n = 0 THEN {} ELSE {n}
      /\ n # 0 => content' = views[n] /\ listening' = {views[n]}
      /\ n = 0 => UNCHANGED <<content, listening>>
  <2>1. CASE n = 0
    BY <2>1 DEF RemoveTo
  <2>2. CASE n # 0
    <3>1. views # <<>>
      BY <2>2
    <3>2. disabled = {Len(views)}
      BY <3>1 DEF CrumbsMatchViews
    <3>3. disabled' = (disabled \cap 1 .. n) \cup {n}
      BY <2>2 DEF RemoveTo
    <3>4. disabled' = {n}
      BY <1>2, <3>2, <3>3
    <3> QED
      BY <2>2, <3>4 DEF RemoveTo
  <2> QED
    BY <2>1, <2>2
<1>6. MadeInv'
  BY <1>1, <1>2, <1>3, <1>4 DEF MadeInv
<1>7. CrumbsMatchViews'
  <2>1. \A k \in DOMAIN views' : crumbs'[k] = label'[views'[k]]
    BY <1>1, <1>2, <1>3, <1>4
  <2>2. disabled' = IF views' = <<>> THEN {} ELSE {Len(views')}
    BY <1>3, <1>4, <1>5
  <2> QED
    BY <1>3, <2>1, <2>2 DEF CrumbsMatchViews
<1>8. views' # <<>> => content' = Top' /\ listening' = {Top'}
  BY <1>3, <1>4, <1>5 DEF Top
<1>9. disabled' \in SUBSET Object
  <2>1. n # 0 => n \in Object
    BY <1>2 DEF MadeInv
  <2> QED
    BY <1>5, <2>1
<1>10. listening' \in SUBSET Object /\ content' \in 0 .. MaxObject
  <2>1. CASE n = 0
    BY <1>5, <2>1
  <2>2. CASE n # 0
    <3>1. views[n] \in Object
      BY <1>2, <2>2
    <3> QED
      BY <1>5, <2>2, <3>1
  <2> QED
    BY <2>1, <2>2
<1> QED
  BY <1>1, <1>3, <1>6, <1>7, <1>8, <1>9, <1>10

\* A new UIBreadcumbs with a first view.
LEMMA ShowStep ==
  ASSUME IInv, NEW c \in Component, ShowInBreadcumbs(c)
  PROVE  StackInv' /\ component' = c /\ bound' = {owner'} /\ owner' # 0
<1>1. /\ last \in Nat /\ last + 2 <= MaxObject /\ last' = last + 2
      /\ component' = c /\ owner' = last + 1 /\ bound' = {last + 1}
  BY DEF ShowInBreadcumbs, SetUIComponent, IInv, TypeOK
<1>2. PICK l \in Label : PushOn(<<>>, <<>>, l, last + 2)
  BY DEF ShowInBreadcumbs
<1>3. last + 2 \in Object /\ owner' \in 0 .. last + 2
  BY <1>1
<1>4. /\ <<>> \in Seq(Object) /\ <<>> \in Seq(Label)
      /\ Len(<<>>) = 0 /\ 0 < last + 2
      /\ \A k \in 1 .. 0 : FALSE
  BY <1>1
<1>5. label \in [Object -> Label]
  BY DEF IInv, TypeOK
<1>6. StackInv'
  BY <1>1, <1>2, <1>3, <1>4, <1>5, PushStep
<1> QED
  BY <1>1, <1>6

\* The workspace is given to a component without views.
LEMMA EmptyStep ==
  ASSUME IInv, NEW c \in Component, last < MaxObject, last' = last + 1,
         SetUIComponent(c, last + 1), NoViews, UNCHANGED label
  PROVE  StackInv' /\ component' = c /\ bound' = {owner'} /\ owner' # 0
<1>1. last \in Nat /\ last + 1 \in Object /\ label \in [Object -> Label]
  BY DEF IInv, TypeOK
<1>2. /\ component' = c /\ owner' = last + 1 /\ bound' = {last + 1}
      /\ views' = <<>> /\ crumbs' = <<>> /\ disabled' = {} /\ content' = 0 /\ listening' = {}
  BY DEF SetUIComponent, NoViews
<1>3. MadeInv' /\ CrumbsMatchViews'
  BY <1>1, <1>2 DEF MadeInv, CrumbsMatchViews
<1> QED
  BY <1>1, <1>2, <1>3 DEF StackInv

-----------------------------------------------------------------------------
(* The steps of the console                                                *)

\* The parts of the invariant that are not about the stack.
LEMMA Assemble ==
  ASSUME StackInv', active' \in Plugin, pending' \in [Component -> 0 .. MaxPending],
         component' \in Component \cup {Nothing}, clicked' \in Component \cup {Nothing},
         overlap' \in BOOLEAN, bound' = IF owner' = 0 THEN {} ELSE {owner'}
  PROVE  IInv'
<1>1. bound' \in SUBSET Object
  BY DEF StackInv
<1> QED
  BY <1>1 DEF IInv, StackInv, TypeOK, MadeInv, TopIsShown

\* The invariant holds at the start.
LEMMA InitIInv == Init => IInv
<1> SUFFICES ASSUME Init PROVE IInv
  OBVIOUS
<1>1. TypeOK
  <2>1. label \in [Object -> Label]
    BY DEF Init
  <2>2. views \in Seq(Object) /\ crumbs \in Seq(Label) /\ active \in Plugin
    BY DEF Init
  <2>3. pending \in [Component -> 0 .. MaxPending]
    BY DEF Init
  <2>4. /\ component = Nothing /\ clicked = Nothing /\ owner = 0 /\ last = 0 /\ content = 0
        /\ bound = {} /\ listening = {} /\ disabled = {} /\ overlap = FALSE
    BY DEF Init
  <2>5. 0 \in 0 .. MaxObject
    OBVIOUS
  <2>6. /\ component \in Component \cup {Nothing} /\ clicked \in Component \cup {Nothing}
        /\ owner \in 0 .. MaxObject /\ last \in 0 .. MaxObject /\ content \in 0 .. MaxObject
        /\ bound \in SUBSET Object /\ listening \in SUBSET Object /\ disabled \in SUBSET Object
        /\ overlap \in BOOLEAN
    BY <2>4, <2>5
  <2> QED
    BY <2>1, <2>2, <2>3, <2>6 DEF TypeOK
<1>2. MadeInv /\ CrumbsMatchViews /\ TopIsShown
  BY DEF Init, MadeInv, CrumbsMatchViews, TopIsShown
<1> QED
  BY <1>1, <1>2 DEF IInv

\* Every step keeps the invariant.
LEMMA NextIInv == IInv /\ [Next]_vars => IInv'
<1> SUFFICES ASSUME IInv, [Next]_vars PROVE IInv'
  OBVIOUS
<1>0. /\ StackInv /\ active \in Plugin /\ pending \in [Component -> 0 .. MaxPending]
      /\ component \in Component \cup {Nothing} /\ clicked \in Component \cup {Nothing}
      /\ overlap \in BOOLEAN /\ bound = IF owner = 0 THEN {} ELSE {owner}
  BY DEF IInv, StackInv, TypeOK, TopIsShown
<1>a. UNCHANGED pageVars => /\ StackInv' /\ component' = component
                            /\ bound' = IF owner' = 0 THEN {} ELSE {owner'}
  BY <1>0 DEF StackInv, MadeInv, CrumbsMatchViews, Top
<1>b. Awaited \in BOOLEAN
  BY DEF Awaited
<1>c. ASSUME NEW c \in Component, Arrives(c)
      PROVE  pending' \in [Component -> 0 .. MaxPending]
  <2>1. pending[c] - 1 \in 0 .. MaxPending
    BY <1>0, <1>c DEF Arrives
  <2> QED
    BY <1>0, <1>c, <2>1 DEF Arrives
<1>1. ASSUME NEW c \in Direct, SelectDirect(c) PROVE IInv'
  BY <1>0, <1>1, <1>b, ShowStep, Assemble DEF SelectDirect, Select, Component
<1>2. ASSUME NEW c \in Direct, SelectDirectFails(c) PROVE IInv'
  BY <1>0, <1>2, <1>a, Assemble DEF SelectDirectFails, Select, Component
<1>3. ASSUME NEW c \in Lazy, LoadedLazy(c) PROVE IInv'
  BY <1>0, <1>3, <1>c, ShowStep, Assemble DEF LoadedLazy, Component
<1>4. ASSUME NEW c \in Lazy, LoadedLazyFails(c) PROVE IInv'
  BY <1>0, <1>4, <1>c, EmptyStep, Assemble DEF LoadedLazyFails, Component
<1>5. ASSUME NEW c \in Single, LoadedSingle(c) PROVE IInv'
  BY <1>0, <1>5, <1>c, EmptyStep, Assemble DEF LoadedSingle, Component
<1>6. ASSUME NEW c \in Lazy \cup Single, SelectLazy(c) PROVE IInv'
  <2>1. pending' \in [Component -> 0 .. MaxPending]
    BY <1>0, <1>6 DEF SelectLazy, Component
  <2> QED
    BY <1>0, <1>6, <1>a, <1>b, <2>1, Assemble DEF SelectLazy, Select, Component
<1>7. ASSUME NEW c \in Lazy \cup Single, LoadFails(c) PROVE IInv'
  BY <1>0, <1>7, <1>a, <1>c, Assemble DEF LoadFails, Component
<1>8. ASSUME NEW p \in Plugin, OnSelectPlugin(p) PROVE IInv'
  BY <1>0, <1>8, <1>a, Assemble DEF OnSelectPlugin
<1>9. ASSUME NEW p \in Plugin, OnSelectPluginWithDefault(p) PROVE IInv'
  <2>1. Default[p] \in Component
    BY <1>9 DEF OnSelectPluginWithDefault, Component
  <2> QED
    BY <1>0, <1>9, <1>a, <1>b, <2>1, ShowStep, Assemble DEF OnSelectPluginWithDefault
<1>10. ASSUME NEW l \in Label, Push(l) PROVE IInv'
  <2>1. /\ last + 1 \in Object /\ last' = last + 1
        /\ owner' \in 0 .. last + 1
        /\ PushOn(views, crumbs, l, last + 1)
        /\ UNCHANGED <<active, pending, component, owner, bound, clicked, overlap>>
    BY <1>0, <1>10 DEF Push, StackInv, MadeInv
  <2>2. /\ Len(crumbs) = Len(views) /\ Len(views) < last + 1
        /\ \A k \in 1 .. Len(views) : views[k] < last + 1 /\ crumbs[k] = label[views[k]]
    <3>1. /\ Len(views) \in Nat /\ last \in Nat /\ DOMAIN views = 1 .. Len(views)
          /\ \A k \in 1 .. Len(views) : views[k] \in Nat
      BY <1>0 DEF StackInv
    <3>2. Len(views) <= last /\ \A k \in 1 .. Len(views) : views[k] <= last
      BY <1>0, <3>1 DEF StackInv, MadeInv
    <3>3. Len(crumbs) = Len(views) /\ \A k \in 1 .. Len(views) : crumbs[k] = label[views[k]]
      BY <1>0, <3>1 DEF StackInv, CrumbsMatchViews
    <3> QED
      BY <3>1, <3>2, <3>3
  <2>3. StackInv'
    BY <1>0, <2>1, <2>2, PushStep DEF StackInv
  <2> QED
    BY <1>0, <2>1, <2>3, Assemble
<1>11. ASSUME NEW n \in 0 .. Len(views), RemoveTo(n),
              UNCHANGED <<active, pending, clicked, overlap>>
       PROVE  IInv'
  <2>1. StackInv'
    BY <1>0, <1>11, RemoveStep
  <2> QED
    BY <1>0, <1>11, <2>1, Assemble DEF RemoveTo
<1>12. ASSUME NEW k \in Object, OnSelectView(k) PROVE IInv'
  <2>1. Len(views) \in Nat /\ Says(k) \subseteq 1 .. Len(views)
    BY <1>0 DEF StackInv, Says, Labelled
  <2>2. PICK n : n = Topmost(Says(k))
    OBVIOUS
  <2>3. n \in 0 .. Len(views)
    BY <2>1, <2>2, TopmostFacts
  <2> QED
    BY <1>11, <1>12, <2>2, <2>3 DEF OnSelectView
<1>13. CASE Back
  <2>1. /\ Len(views) \in Nat
        /\ Labelled(label[views[Len(views) - 1]]) \subseteq 1 .. Len(views)
    BY <1>0 DEF StackInv, Labelled
  <2>2. PICK n : n = Topmost(Labelled(label[views[Len(views) - 1]]))
    OBVIOUS
  <2>3. n \in 0 .. Len(views)
    BY <2>1, <2>2, TopmostFacts
  <2> QED
    BY <1>11, <1>13, <2>2, <2>3 DEF Back
<1>14. CASE UNCHANGED vars
  BY <1>0, <1>14, <1>a, Assemble DEF vars
<1> QED
  BY <1>1, <1>2, <1>3, <1>4, <1>5, <1>6, <1>7, <1>8, <1>9, <1>10, <1>12, <1>13, <1>14
  DEF Next

\* Every reachable state satisfies the inductive invariant.
LEMMA InductiveInvariant == Spec => []IInv
  BY InitIInv, NextIInv, PTL DEF Spec

-----------------------------------------------------------------------------
(* The theorems                                                            *)

\* The state of the console keeps its types.
THEOREM TypeCorrect == Spec => []TypeOK
  BY InductiveInvariant, PTL DEF IInv

\* Every crumb says what view it belongs to, and the last is the disabled one.
THEOREM CrumbsFollowViews == Spec => []CrumbsMatchViews
  BY InductiveInvariant, PTL DEF IInv

\* What is on the page is the top of the stack, and it alone listens.
THEOREM PageShowsTop == Spec => []TopIsShown
  BY InductiveInvariant, PTL DEF IInv

\* A crumb leads to the topmost view that has its label (_removeToLabel), which
\* is its own view where no view above has the same label.  Not said of a crumb
\* without a label: it shows "???" and finds no view.
THEOREM CrumbsLeadHome == Spec => CrumbLeadsToItsView
<1>1. IInv => \A k \in DOMAIN crumbs :
                OnSelectView(k) /\ crumbs[k] \notin Odd =>
                  /\ views' # <<>> /\ label'[content'] = crumbs[k]
                  /\ Len(views') >= k
                  /\ \A n \in DOMAIN views' : views'[n] = views[n]
                  /\ \A n \in DOMAIN views : label[views[n]] = crumbs[k] => n <= Len(views')
  <2> SUFFICES ASSUME IInv, NEW k \in DOMAIN crumbs, OnSelectView(k), crumbs[k] \notin Odd
               PROVE  /\ views' # <<>> /\ label'[content'] = crumbs[k]
                      /\ Len(views') >= k
                      /\ \A n \in DOMAIN views' : views'[n] = views[n]
                      /\ \A n \in DOMAIN views : label[views[n]] = crumbs[k] => n <= Len(views')
    OBVIOUS
  <2>1. /\ views \in Seq(Object) /\ Len(views) \in Nat /\ k \in 1 .. Len(views)
        /\ crumbs[k] = label[views[k]]
    BY DEF IInv, TypeOK, CrumbsMatchViews
  <2>2. /\ Says(k) = Labelled(crumbs[k])
        /\ Says(k) \subseteq 1 .. Len(views)
        /\ k \in Says(k)
    BY <2>1 DEF Says, Labelled
  <2>3. PICK n : n = Topmost(Says(k))
    OBVIOUS
  <2>4. n \in Says(k) /\ k <= n /\ n \in 1 .. Len(views)
    <3>1. n \in Says(k) \cup {0} /\ k <= n
      BY <2>1, <2>2, <2>3, TopmostFacts
    <3>2. n # 0
      BY <2>1, <3>1
    <3> QED
      BY <2>2, <3>1, <3>2
  <2>5. RemoveTo(n)
    BY <2>3 DEF OnSelectView
  <2>6. /\ views' = SubSeq(views, 1, n) /\ content' = views[n] /\ UNCHANGED label
    BY <2>4, <2>5 DEF RemoveTo
  <2>7. /\ views' \in Seq(Object) /\ Len(views') = n
        /\ \A i \in 1 .. n : views'[i] = views[i]
    BY <2>1, <2>4, <2>6, LowerPart
  <2>8. label[views[n]] = crumbs[k]
    BY <2>2, <2>4 DEF Labelled
  <2>9. \A m \in DOMAIN views : label[views[m]] = crumbs[k] => m <= n
    <3>1. \A m \in DOMAIN views : label[views[m]] = crumbs[k] => m \in Says(k)
      BY <2>2 DEF Labelled
    <3> QED
      BY <2>1, <2>2, <2>3, <3>1, TopmostFacts
  <2> QED
    BY <2>1, <2>4, <2>6, <2>7, <2>8, <2>9
<1> QED
  BY <1>1, InductiveInvariant, PTL DEF CrumbLeadsToItsView

-----------------------------------------------------------------------------
(* What was selected and what is shown                                     *)

\* Unless selections overlap or fail, one callback is awaited at most, and it
\* brings what was selected last; when none is awaited, that is shown.
SelectionInv ==
  ~overlap =>
    /\ \A c \in Component : pending[c] # 0 => c = clicked /\ pending[c] = 1
    /\ ~Awaited => component = clicked

\* A callback that arrives is for the last selection, and is the last awaited.
LEMMA ArrivesLast ==
  ASSUME TypeOK, SelectionInv, ~overlap, NEW c \in Component, Arrives(c)
  PROVE  /\ c = clicked
         /\ \A d \in Component : pending'[d] = 0
<1>1. pending \in [Component -> 0 .. MaxPending] /\ pending[c] # 0
  BY DEF Arrives, TypeOK
<1>2. /\ c = clicked /\ pending[c] = 1
      /\ \A d \in Component : d # c => pending[d] = 0
  BY <1>1 DEF SelectionInv
<1>3. pending' = [pending EXCEPT ![c] = 0]
  BY <1>2 DEF Arrives
<1> QED
  BY <1>1, <1>2, <1>3

\* Every step keeps the tie between the selection and the callbacks.
LEMMA NextSelectionInv ==
  TypeOK /\ TypeOK' /\ SelectionInv /\ [Next]_vars => SelectionInv'
<1> SUFFICES ASSUME TypeOK, TypeOK', SelectionInv, [Next]_vars, ~overlap'
             PROVE  /\ \A c \in Component : pending'[c] # 0 => c = clicked' /\ pending'[c] = 1
                    /\ (\A c \in Component : pending'[c] = 0) => component' = clicked'
  <2>1. TypeOK' => (~Awaited' => \A c \in Component : pending'[c] = 0)
    BY DEF TypeOK, Awaited
  <2> QED
    BY <2>1 DEF SelectionInv
<1>0. pending \in [Component -> 0 .. MaxPending]
  BY DEF TypeOK
<1>1. ASSUME ~Awaited PROVE \A c \in Component : pending[c] = 0
  BY <1>0, <1>1 DEF Awaited
<1>2. CASE UNCHANGED <<pending, component, clicked, overlap>>
  <2>1. ~Awaited <=> \A c \in Component : pending[c] = 0
    BY <1>0, <1>1 DEF Awaited
  <2> QED
    BY <1>2, <2>1 DEF SelectionInv
<1>3. ASSUME NEW c \in Component, UNCHANGED pending, ~Awaited, component' = c, clicked' = c
      PROVE  /\ \A d \in Component : pending'[d] # 0 => d = clicked' /\ pending'[d] = 1
             /\ component' = clicked'
  BY <1>1, <1>3
<1>4. ASSUME NEW c \in Component, Arrives(c), component' = c, UNCHANGED <<clicked, overlap>>
      PROVE  /\ \A d \in Component : pending'[d] # 0 => d = clicked' /\ pending'[d] = 1
             /\ component' = clicked'
  BY <1>4, ArrivesLast
<1>5. ASSUME NEW c \in Direct, SelectDirect(c)
      PROVE  UNCHANGED pending /\ ~Awaited /\ component' = c /\ clicked' = c
  BY <1>5 DEF SelectDirect, Select, ShowInBreadcumbs, SetUIComponent
<1>6. ASSUME NEW c \in Direct, SelectDirectFails(c) PROVE FALSE
  BY <1>6 DEF SelectDirectFails
<1>7. ASSUME NEW c \in Lazy, LoadedLazy(c)
      PROVE  Arrives(c) /\ component' = c /\ UNCHANGED <<clicked, overlap>>
  BY <1>7 DEF LoadedLazy, ShowInBreadcumbs, SetUIComponent
<1>8. ASSUME NEW c \in Single, LoadedSingle(c)
      PROVE  Arrives(c) /\ component' = c /\ UNCHANGED <<clicked, overlap>>
  BY <1>8 DEF LoadedSingle, SetUIComponent
<1>9. ASSUME NEW c \in Component, LoadedLazyFails(c) \/ LoadFails(c) PROVE FALSE
  BY <1>9 DEF LoadedLazyFails, LoadFails
<1>10. ASSUME NEW c \in Component, SelectLazy(c)
       PROVE  /\ \A d \in Component : pending'[d] # 0 => d = clicked' /\ pending'[d] = 1
              /\ pending'[c] # 0
  <2>1. /\ clicked' = c /\ ~Awaited
        /\ pending' = [pending EXCEPT ![c] = pending[c] + 1]
    BY <1>10 DEF SelectLazy, Select
  <2>2. \A d \in Component : pending'[d] = IF d = c THEN 1 ELSE 0
    BY <1>0, <1>1, <2>1
  <2> QED
    BY <2>1, <2>2
<1>11. ASSUME NEW p \in Plugin, OnSelectPluginWithDefault(p)
       PROVE  /\ Default[p] \in Component /\ UNCHANGED pending /\ ~Awaited
              /\ component' = Default[p] /\ clicked' = Default[p]
  BY <1>11 DEF OnSelectPluginWithDefault, ShowInBreadcumbs, SetUIComponent, Component
<1>12. ASSUME NEW p \in Plugin, OnSelectPlugin(p)
       PROVE  UNCHANGED <<pending, component, clicked, overlap>>
  BY <1>12 DEF OnSelectPlugin
<1>13. ASSUME NEW l \in Label, Push(l)
       PROVE  UNCHANGED <<pending, component, clicked, overlap>>
  BY <1>13 DEF Push
<1>14. ASSUME NEW k \in Object, OnSelectView(k)
       PROVE  UNCHANGED <<pending, component, clicked, overlap>>
  BY <1>14 DEF OnSelectView, RemoveTo
<1>15. CASE Back
  BY <1>2, <1>15 DEF Back, RemoveTo
<1>16. CASE UNCHANGED vars
  BY <1>2, <1>16 DEF vars
<1>17. Direct \subseteq Component /\ Lazy \subseteq Component /\ Single \subseteq Component
  BY DEF Component
<1> QED
  BY <1>2, <1>3, <1>4, <1>5, <1>6, <1>7, <1>8, <1>9, <1>10, <1>11, <1>12, <1>13, <1>14,
     <1>15, <1>16, <1>17 DEF Next

\* Once nothing is awaited the workspace shows what was selected last, unless
\* selections overlapped or one of them failed.
THEOREM SelectionIsShown == Spec => []ShowsSelection
<1>1. Init => SelectionInv
  BY DEF Init, SelectionInv
<1>2. SelectionInv => ShowsSelection
  BY DEF SelectionInv, ShowsSelection
<1> QED
  BY <1>1, <1>2, NextSelectionInv, TypeCorrect, PTL DEF Spec

-----------------------------------------------------------------------------
(* The console implements ViewStack                                        *)

\* What is known of the stack, its names and the places on it.
LEMMA StackFacts ==
  ASSUME IInv
  PROVE  /\ views \in Seq(Object) /\ crumbs \in Seq(Label) /\ Len(views) \in Nat
         /\ DOMAIN views = 1 .. Len(views) /\ DOMAIN crumbs = 1 .. Len(views)
         /\ \A k \in 1 .. Len(views) : crumbs[k] = label[views[k]] /\ views[k] <= last
         /\ last \in Nat
<1>1. /\ views \in Seq(Object) /\ crumbs \in Seq(Label) /\ last \in 0 .. MaxObject
      /\ \A k \in DOMAIN views : views[k] <= last /\ crumbs[k] = label[views[k]]
      /\ Len(crumbs) = Len(views)
  BY DEF IInv, TypeOK, MadeInv, CrumbsMatchViews
<1>2. Len(views) \in Nat /\ DOMAIN views = 1 .. Len(views) /\ DOMAIN crumbs = 1 .. Len(views)
  BY <1>1
<1> QED
  BY <1>1, <1>2

\* A new UIBreadcumbs is a stack of one view.
LEMMA ShowImplements ==
  ASSUME IInv, NEW c, ShowInBreadcumbs(c) PROVE Stack!StackNext
<1>1. PICK l \in Label : PushOn(<<>>, <<>>, l, last + 2)
  BY DEF ShowInBreadcumbs
<1>2. last + 2 \in Object
  BY StackFacts DEF ShowInBreadcumbs
<1>3. views' = <<last + 2>> /\ crumbs' = <<l>> /\ listening' = {last + 2}
  BY <1>1 DEF PushOn
<1>4. Stack!Show(last + 2, l)
  BY <1>3 DEF Stack!Show
<1> QED
  BY <1>1, <1>2, <1>4 DEF Stack!StackNext

\* A component without views leaves no stack.
LEMMA EmptyImplements == NoViews => Stack!StackNext
  BY DEF NoViews, Stack!StackNext, Stack!Leave

\* A view that is pushed is not on the stack yet.
LEMMA PushImplements ==
  ASSUME IInv, NEW l \in Label, Push(l) PROVE Stack!StackNext
<1>1. last + 1 \in Object /\ \A n \in DOMAIN views : views[n] # last + 1
  <2>1. last + 1 \in Object
    BY StackFacts DEF Push
  <2>2. ASSUME NEW n \in 1 .. Len(views) PROVE views[n] # last + 1
    <3>1. views[n] \in Nat /\ views[n] <= last /\ last \in Nat
      BY StackFacts
    <3> QED
      BY <3>1
  <2> QED
    BY <2>1, <2>2, StackFacts
<1>2. /\ listening # {}
      /\ views' = Append(views, last + 1) /\ crumbs' = Append(crumbs, l)
      /\ listening' = {last + 1}
  BY DEF Push, PushOn
<1>3. Stack!Open(last + 1, l)
  BY <1>1, <1>2 DEF Stack!Open
<1> QED
  BY <1>1, <1>3 DEF Stack!StackNext

\* The search for the label of view k ends at the latest view of that name, for
\* view k itself is found: the crumbs say what the labels of the views are.
LEMMA ReturnImplements ==
  ASSUME IInv, NEW k \in 1 .. Len(views), RemoveTo(Topmost(Labelled(crumbs[k])))
  PROVE  Stack!StackNext
<1>1. PICK n : n = Topmost(Labelled(crumbs[k]))
  OBVIOUS
<1>2. /\ Labelled(crumbs[k]) \subseteq 1 .. Len(views)
      /\ k \in Labelled(crumbs[k])
  BY StackFacts DEF Labelled
<1>3. /\ n \in Labelled(crumbs[k]) \cup {0}
      /\ \A m \in Labelled(crumbs[k]) : m <= n
  BY <1>1, <1>2, StackFacts, TopmostFacts
<1>4. n \in 1 .. Len(views) /\ n \in Labelled(crumbs[k])
  <2>1. k <= n /\ 1 <= k
    BY <1>2, <1>3
  <2>2. n # 0
    BY <2>1
  <2> QED
    BY <1>2, <1>3, <2>2
<1>5. Stack!Latest(n, crumbs[k])
  <2>1. crumbs[n] = crumbs[k]
    BY <1>4, StackFacts DEF Labelled
  <2>2. ASSUME NEW m \in 1 .. Len(views), m > n PROVE crumbs[m] # crumbs[k]
    <3>1. m \notin Labelled(crumbs[k])
      BY <1>3, <1>4, <2>2, StackFacts
    <3> QED
      BY <3>1, StackFacts DEF Labelled
  <2> QED
    BY <2>1, <2>2, StackFacts DEF Stack!Latest
<1>6. /\ views' = SubSeq(views, 1, n) /\ crumbs' = SubSeq(crumbs, 1, n)
      /\ listening' = {views[n]}
  BY <1>1, <1>4 DEF RemoveTo
<1>7. Stack!Return(k)
  BY <1>4, <1>5, <1>6, StackFacts DEF Stack!Return
<1> QED
  BY <1>7, StackFacts DEF Stack!StackNext

\* A crumb whose label no view has loses the stack.
LEMMA MissImplements ==
  ASSUME IInv, NEW k \in 1 .. Len(views), crumbs[k] \in Odd, RemoveTo(Topmost({}))
  PROVE  Stack!StackNext
<1>1. Topmost({}) = 0
  BY DEF Topmost
<1>2. /\ views' = SubSeq(views, 1, 0) /\ crumbs' = SubSeq(crumbs, 1, 0)
      /\ listening' = listening
  BY <1>1 DEF RemoveTo
<1>3. views' = <<>> /\ crumbs' = <<>>
  BY <1>2, StackFacts
<1>4. Stack!Miss(k)
  BY <1>2, <1>3 DEF Stack!Miss
<1> QED
  BY <1>4, StackFacts DEF Stack!StackNext

\* A crumb, and back().
LEMMA CrumbImplements ==
  ASSUME IInv, (\E k \in Object : OnSelectView(k)) \/ Back PROVE Stack!StackNext
<1>1. ASSUME NEW k \in Object, OnSelectView(k) PROVE Stack!StackNext
  <2>1. k \in 1 .. Len(views) /\ RemoveTo(Topmost(Says(k)))
    BY <1>1, StackFacts DEF OnSelectView
  <2>2. CASE crumbs[k] \in Odd
    BY <2>1, <2>2, MissImplements DEF Says
  <2>3. CASE crumbs[k] \notin Odd
    BY <2>1, <2>3, ReturnImplements DEF Says
  <2> QED
    BY <2>2, <2>3
<1>2. CASE Back
  <2>1. /\ Len(views) - 1 \in 1 .. Len(views)
        /\ crumbs[Len(views) - 1] = label[views[Len(views) - 1]]
    BY <1>2, StackFacts DEF Back
  <2>2. RemoveTo(Topmost(Labelled(crumbs[Len(views) - 1])))
    BY <1>2, <2>1 DEF Back
  <2> QED
    BY <2>1, <2>2, ReturnImplements
<1> QED
  BY <1>1, <1>2

\* Whatever is selected, loaded late or fails, the console is one stack of views:
\* a crumb and back() lead to the latest view of the name they show, one view at a
\* time is opened on top, and only the top reacts to the user.
THEOREM ConsoleImplementsViewStack == Spec => ImplementsViewStack
<1>1. Init => Stack!StackInit
  BY DEF Init, Stack!StackInit
<1>2. IInv /\ [Next]_vars => [Stack!StackNext]_(Stack!stackVars)
  <2> SUFFICES ASSUME IInv, [Next]_vars
               PROVE  Stack!StackNext \/ UNCHANGED Stack!stackVars
    OBVIOUS
  <2>0. UNCHANGED pageVars => UNCHANGED Stack!stackVars
    BY DEF Stack!stackVars
  <2>1. ASSUME NEW c \in Component,
               SelectDirect(c) \/ SelectDirectFails(c) \/ LoadedLazy(c) \/ LoadedLazyFails(c)
                 \/ LoadedSingle(c) \/ SelectLazy(c) \/ LoadFails(c)
        PROVE  Stack!StackNext \/ UNCHANGED Stack!stackVars
    BY <2>0, <2>1, ShowImplements, EmptyImplements
    DEF SelectDirect, SelectDirectFails, LoadedLazy, LoadedLazyFails, LoadedSingle,
        SelectLazy, LoadFails
  <2>2. ASSUME NEW p \in Plugin, OnSelectPlugin(p) \/ OnSelectPluginWithDefault(p)
        PROVE  Stack!StackNext \/ UNCHANGED Stack!stackVars
    BY <2>0, <2>2, ShowImplements DEF OnSelectPlugin, OnSelectPluginWithDefault
  <2>3. CASE UNCHANGED vars
    BY <2>0, <2>3 DEF vars
  <2> QED
    BY <2>1, <2>2, <2>3, PushImplements, CrumbImplements DEF Next, Component
<1> QED
  BY <1>1, <1>2, InductiveInvariant, PTL DEF Spec, ImplementsViewStack, Stack!StackSpec
=============================================================================
