------------------------------ MODULE Workspace ------------------------------
(***************************************************************************)
(* The web console around its components: the plugin navigation, the one   *)
(* UIWorkspace that shows what was selected there, and UIBreadcumbs, the   *)
(* stack of views most selections are shown in.                            *)
(*                                                                         *)
(* Handlers run one at a time, but a component that is loaded with         *)
(* require() is shown by a callback, later and in any order.  A view whose *)
(* constructor gets its data from the server throws when that fails.       *)
(*                                                                         *)
(* Views and the UIBreadcumbs that hold them are numbered as they are made.*)
(***************************************************************************)
EXTENDS Integers, Sequences, FiniteSets

CONSTANTS Plugin,      \* the plugins; one of them is active
          Direct,      \* components shown at once, each in a new UIBreadcumbs
          Lazy,        \* components shown by a callback, in a new UIBreadcumbs
          Single,      \* components that exist once, shown by a callback
          PluginOf,    \* the plugin a component is offered by
          Default,     \* the component a plugin shows when it is rendered, or Nothing
          Nothing,
          Label,       \* the labels of views
          Odd,         \* labels that are missing or not trimmed: no crumb has them
          MaxObject,   \* bound: the objects that are ever made
          MaxPending   \* bound: the callbacks that are awaited

Component == Direct \cup Lazy \cup Single

ASSUME WorkspaceAssumption ==
  /\ Direct \cap Lazy = {} /\ Single \cap (Direct \cup Lazy) = {}
  /\ PluginOf \in [Component -> Plugin]
  /\ Default \in [Plugin -> Direct \cup {Nothing}] /\ Nothing \notin Component
  /\ Odd \subseteq Label /\ Label # {}
  /\ MaxObject \in Nat /\ MaxPending \in Nat

Object == 1 .. MaxObject

VARIABLES
  active,    \* the active plugin
  pending,   \* per component: the callbacks of require() that are awaited
  component, \* the component the workspace was set to
  owner,     \* the object whose element is the workspace, 0 for none
  bound,     \* the objects whose handlers are on the workspace's element
  views,     \* the views of the owner, if it is a UIBreadcumbs
  crumbs,    \* the crumbs on the page, each with the label of its view
  disabled,  \* the crumbs that are marked as disabled
  content,   \* the view rendered below the crumbs, 0 for none
  listening, \* the views whose handlers are on that part of the page
  label,     \* per object: its label
  last,      \* the last object that has been made
  clicked,   \* history: the last component that was selected
  overlap    \* history: a selection was made while callbacks were awaited,
             \* or one of them failed

pageVars == <<component, owner, bound, views, crumbs, disabled, content, listening,
              label, last>>
vars == <<active, pending, pageVars, clicked, overlap>>

Awaited == \E c \in Component : pending[c] > 0
Top == views[Len(views)]


Init ==
  /\ active \in {p \in Plugin : Default[p] = Nothing}
  /\ pending = [c \in Component |-> 0]
  /\ component = Nothing /\ owner = 0 /\ bound = {}
  /\ views = <<>> /\ crumbs = <<>> /\ disabled = {}
  /\ content = 0 /\ listening = {}
  /\ label \in {[o \in Object |-> l] : l \in Label}
  /\ last = 0
  /\ clicked = Nothing /\ overlap = FALSE

-----------------------------------------------------------------------------
(* UIWorkspace and UIBreadcumbs                                            *)

\* Bug: the handlers of the component before are left on the workspace.
SetUIComponent_NoUnbind(c, o) ==
  /\ component' = c
  /\ owner' = o
  /\ bound' = bound \cup {o}

\* setUIComponent: the workspace is emptied and belongs to o from now on.
SetUIComponent(c, o) ==
  /\ component' = c
  /\ owner' = o
  /\ bound' = {o}

\* The owner is new and has no view.
NoViews ==
  /\ views' = <<>> /\ crumbs' = <<>> /\ disabled' = {}
  /\ content' = 0 /\ listening' = {}

\* Bug: the handlers of the view below stay on the page.
PushOn_NoUnbind(vs, cs, l, o) ==
  /\ label' = [label EXCEPT ![o] = l]
  /\ views' = Append(vs, o)
  /\ crumbs' = Append(cs, l)
  /\ disabled' = {Len(cs) + 1}
  /\ content' = o
  /\ listening' = {v \in listening : \E k \in DOMAIN vs : vs[k] = v} \cup {o}

\* push: view o with label l on the stack vs, under the crumbs cs.
PushOn(vs, cs, l, o) ==
  /\ label' = [label EXCEPT ![o] = l]
  /\ views' = Append(vs, o)
  /\ crumbs' = Append(cs, l)
  /\ disabled' = {Len(cs) + 1}
  /\ content' = o
  /\ listening' = {o}

\* A new UIBreadcumbs with a first view: the last two objects.
ShowInBreadcumbs(c) ==
  /\ last + 2 <= MaxObject
  /\ last' = last + 2
  /\ SetUIComponent(c, last + 1)
  /\ \E l \in Label : PushOn(<<>>, <<>>, l, last + 2)

\* Bug: a view is removed, its crumb is not.
RemoveTo_CrumbStays(n) ==
  /\ views' = SubSeq(views, 1, n)
  /\ crumbs' = crumbs
  /\ IF n = 0
     THEN disabled' = {} /\ UNCHANGED <<content, listening>>
     ELSE /\ disabled' = disabled \cup {Len(crumbs)}
          /\ content' = views[n]
          /\ listening' = {views[n]}
  /\ UNCHANGED <<component, owner, bound, label, last>>

\* _removeToLabel, to view n: the views above it are popped, with their crumbs,
\* and n is shown again.  When no view has the label all of them are popped and
\* the page below the crumbs stays as it is.
RemoveTo(n) ==
  /\ views' = SubSeq(views, 1, n)
  /\ crumbs' = SubSeq(crumbs, 1, n)
  /\ IF n = 0
     THEN disabled' = {} /\ UNCHANGED <<content, listening>>
     ELSE /\ disabled' = (disabled \cap 1 .. n) \cup {n}
          /\ content' = views[n]
          /\ listening' = {views[n]}
  /\ UNCHANGED <<component, owner, bound, label, last>>

\* The views that have label l, by their place on the stack.
Labelled(l) == {n \in DOMAIN views : label[views[n]] = l}

\* The views that have the label crumb k shows; an odd label is not shown.
Says(k) == IF crumbs[k] \in Odd THEN {} ELSE Labelled(crumbs[k])

\* The topmost of some places, 0 if there is none.
Topmost(found) == CHOOSE n \in found \cup {0} : \A m \in found : m <= n

-----------------------------------------------------------------------------
(* Navigation                                                              *)

\* The user selects component c of the active plugin.
Select(c) ==
  /\ PluginOf[c] = active
  /\ clicked' = c

\* The component is made before the workspace is touched.
SelectDirect(c) ==
  /\ Select(c)
  /\ ShowInBreadcumbs(c)
  /\ overlap' = Awaited
  /\ UNCHANGED <<active, pending>>

SelectDirectFails(c) ==
  /\ Select(c)
  /\ overlap' = TRUE
  /\ UNCHANGED <<active, pending, pageVars>>

\* require(), for a component that may have been loaded before or not.
SelectLazy(c) ==
  /\ Select(c)
  /\ pending[c] < MaxPending
  /\ pending' = [pending EXCEPT ![c] = @ + 1]
  /\ overlap' = Awaited
  /\ UNCHANGED <<active, pageVars>>

Arrives(c) ==
  /\ pending[c] > 0
  /\ pending' = [pending EXCEPT ![c] = @ - 1]

\* Bug: the component is added to the UIBreadcumbs that is there.
LoadedLazy_Adds(c) ==
  /\ Arrives(c)
  /\ IF owner # 0 /\ views # <<>> /\ last < MaxObject
     THEN /\ last' = last + 1
          /\ \E l \in Label : PushOn(views, crumbs, l, last + 1)
          /\ UNCHANGED <<component, owner, bound>>
     ELSE ShowInBreadcumbs(c)
  /\ UNCHANGED <<active, clicked, overlap>>

LoadedLazy(c) ==
  /\ Arrives(c)
  /\ ShowInBreadcumbs(c)
  /\ UNCHANGED <<active, clicked, overlap>>

\* The workspace has been given to a new UIBreadcumbs when the component that
\* is to be its first view throws.
LoadedLazyFails(c) ==
  /\ Arrives(c)
  /\ last < MaxObject
  /\ last' = last + 1
  /\ SetUIComponent(c, last + 1)
  /\ NoViews
  /\ overlap' = TRUE
  /\ UNCHANGED <<active, label, clicked>>

LoadedSingle(c) ==
  /\ Arrives(c)
  /\ last < MaxObject
  /\ last' = last + 1
  /\ SetUIComponent(c, last + 1)
  /\ NoViews
  /\ UNCHANGED <<active, label, clicked, overlap>>

\* The module cannot be loaded, or throws while it is defined.
LoadFails(c) ==
  /\ Arrives(c)
  /\ overlap' = TRUE
  /\ UNCHANGED <<active, pageVars, clicked>>

\* setActivePlugin, for a plugin that only shows its menu.
OnSelectPlugin(p) ==
  /\ Default[p] = Nothing
  /\ active' = p
  /\ UNCHANGED <<pending, pageVars, clicked, overlap>>

\* The elasticsearch plugin shows its nodes when it is rendered, if it can.
OnSelectPluginWithDefault(p) ==
  /\ Default[p] # Nothing
  /\ active' = p
  /\ clicked' = Default[p]
  /\ \/ ShowInBreadcumbs(Default[p]) /\ overlap' = Awaited
     \/ overlap' = TRUE /\ UNCHANGED pageVars
  /\ UNCHANGED pending

-----------------------------------------------------------------------------
(* Inside a UIBreadcumbs                                                   *)

\* A handler of the view that is on the page opens another view.
Push(l) ==
  /\ listening # {}
  /\ last < MaxObject
  /\ last' = last + 1
  /\ PushOn(views, crumbs, l, last + 1)
  /\ UNCHANGED <<active, pending, component, owner, bound, clicked, overlap>>

\* Bug: the lowest view that has the label is searched for.
OnSelectView_Lowest(k) ==
  /\ k \in DOMAIN crumbs
  /\ LET found == Says(k)
     IN RemoveTo(CHOOSE n \in found \cup {0} : /\ n # 0 \/ found = {}
                                               /\ \A m \in found : n <= m)
  /\ UNCHANGED <<active, pending, clicked, overlap>>

\* The crumb's text is compared with the labels, from the top.
OnSelectView(k) ==
  /\ k \in DOMAIN crumbs
  /\ RemoveTo(Topmost(Says(k)))
  /\ UNCHANGED <<active, pending, clicked, overlap>>

\* back(): to the topmost view that has the label of the one below the top.
Back ==
  /\ listening # {} /\ Len(views) > 1
  /\ RemoveTo(Topmost(Labelled(label[views[Len(views) - 1]])))
  /\ UNCHANGED <<active, pending, clicked, overlap>>

-----------------------------------------------------------------------------
Next ==
  \/ \E c \in Direct : SelectDirect(c) \/ SelectDirectFails(c)
  \/ \E c \in Lazy : LoadedLazy(c) \/ LoadedLazyFails(c)
  \/ \E c \in Single : LoadedSingle(c)
  \/ \E c \in Lazy \cup Single : SelectLazy(c) \/ LoadFails(c)
  \/ \E p \in Plugin : OnSelectPlugin(p) \/ OnSelectPluginWithDefault(p)
  \/ \E l \in Label : Push(l)
  \/ \E k \in Object : OnSelectView(k)
  \/ Back

Spec == Init /\ [][Next]_vars

-----------------------------------------------------------------------------
(* Properties                                                              *)

\* The types of the state.
TypeOK ==
  /\ active \in Plugin
  /\ pending \in [Component -> 0 .. MaxPending]
  /\ component \in Component \cup {Nothing}
  /\ clicked \in Component \cup {Nothing}
  /\ owner \in 0 .. MaxObject /\ last \in 0 .. MaxObject
  /\ content \in 0 .. MaxObject
  /\ bound \in SUBSET Object /\ listening \in SUBSET Object
  /\ views \in Seq(Object) /\ crumbs \in Seq(Label)
  /\ disabled \in SUBSET Object
  /\ label \in [Object -> Label]
  /\ overlap \in BOOLEAN

\* The crumbs are the labels of the views, and only the last one is disabled:
\* what a crumb leads to is what it says.
CrumbsMatchViews ==
  /\ Len(crumbs) = Len(views)
  /\ \A k \in DOMAIN views : crumbs[k] = label[views[k]]
  /\ disabled = IF views = <<>> THEN {} ELSE {Len(views)}

\* The page shows the view on top of the stack, and only that view handles its
\* events: no view below it or popped earlier, and nothing the workspace was set
\* to before, reacts to a click.
TopIsShown ==
  /\ views # <<>> => content = Top /\ listening = {Top}
  /\ bound = IF owner = 0 THEN {} ELSE {owner}

\* The workspace shows what the user selected last, unless a selection was made
\* while another one was still being loaded, or failed.
ShowsSelection == ~Awaited /\ ~overlap => component = clicked

\* A crumb leads to the topmost view with its label, which is the crumb's own
\* view or one above it, and leaves the views below in place.  Exempt are the
\* crumbs of views without a label, whose text is the label of no view.
CrumbLeadsToItsView ==
  [][\A k \in DOMAIN crumbs :
       OnSelectView(k) /\ crumbs[k] \notin Odd =>
         /\ views' # <<>> /\ label'[content'] = crumbs[k]
         /\ Len(views') >= k
         /\ \A n \in DOMAIN views' : views'[n] = views[n]
         /\ \A n \in DOMAIN views : label[views[n]] = crumbs[k] => n <= Len(views')]_vars

\* The refinement mapping: the views are the stack, their names are what the crumbs
\* say, and a view reacts that has its handlers on the page.
Stack == INSTANCE ViewStack
           WITH View <- Object, Name <- Label,
                stack <- views, names <- crumbs, live <- listening

\* The console implements ViewStack: whatever is selected, loaded late or fails,
\* a crumb and back() lead to the latest view that has the name on the crumb, or
\* on the crumb before the last, and every other step opens a view on top that is not
\* on the stack, replaces the whole stack or leaves it alone.
ImplementsViewStack == Stack!StackSpec
=============================================================================
