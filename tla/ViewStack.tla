------------------------------ MODULE ViewStack ------------------------------
(***************************************************************************)
(* What the console promises of the views it shows, with no plugins,       *)
(* callbacks, objects or page: one stack of views, each with the name it   *)
(* was given when it was opened; the view on top, and no other, reacts to  *)
(* the user; a return goes to the latest view of the name that was asked   *)
(* for and leaves everything below it alone.  Workspace.tla is shown to    *)
(* implement this.                                                         *)
(***************************************************************************)
EXTENDS Naturals, Sequences

CONSTANTS View, Name,
          Odd    \* the names that nobody can ask for

VARIABLES stack, \* the views
          names, \* their names
          live   \* the views that react to the user

stackVars == <<stack, names, live>>

StackInit == stack = <<>> /\ names = <<>> /\ live = {}

\* A stack of one new view takes the place of what was there.
Show(v, name) ==
  /\ stack' = <<v>> /\ names' = <<name>> /\ live' = {v}

\* So does something that has no views.
Leave ==
  /\ stack' = <<>> /\ names' = <<>> /\ live' = {}

\* A view that reacts opens another one, which is not on the stack yet.
Open(v, name) ==
  /\ live # {}
  /\ \A n \in DOMAIN stack : stack[n] # v
  /\ stack' = Append(stack, v)
  /\ names' = Append(names, name)
  /\ live' = {v}

\* View n is the latest one that has the name.
Latest(n, name) ==
  /\ names[n] = name
  /\ \A m \in DOMAIN stack : m > n => names[m] # name

\* The user asks for the name of view k.
Return(k) ==
  \E n \in DOMAIN stack :
    /\ Latest(n, names[k])
    /\ stack' = SubSeq(stack, 1, n)
    /\ names' = SubSeq(names, 1, n)
    /\ live' = {stack[n]}

\* The user asks for a name that no view answers to, and the stack is lost; what
\* was on top still reacts.
Miss(k) ==
  /\ names[k] \in Odd
  /\ stack' = <<>> /\ names' = <<>> /\ live' = live

StackNext ==
  \/ \E v \in View, name \in Name : Show(v, name) \/ Open(v, name)
  \/ Leave
  \/ \E k \in DOMAIN stack : Return(k) \/ Miss(k)

StackSpec == StackInit /\ [][StackNext]_stackVars
=============================================================================
