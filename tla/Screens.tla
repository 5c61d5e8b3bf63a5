------------------------------- MODULE Screens -------------------------------
(***************************************************************************)
(* The screens of the plugins, in the stack of a UIBreadcumbs: tables,     *)
(* UIContainers and UICollapsibles, whose blocks are made from a response  *)
(* of the server or from the data of a block of the screen below.  Every   *)
(* screen of the stack has its components in memory and was drawn from     *)
(* them at some time; requests are synchronous, and a handler that throws  *)
(* in the middle leaves things as they are then.                           *)
(*                                                                         *)
(* The server is external; its responses are numbered as what they tell    *)
(* changes, and a block's data is the number of the response it is from.   *)
(***************************************************************************)
EXTENDS Naturals, Sequences

CONSTANTS NumOfMember, \* the members of the cluster
          MaxResponse, \* bound on the changes of what the server tells
          MaxBlock     \* bound on the blocks a list of applications grows to

ASSUME ScreensAssumption ==
  NumOfMember \in Nat \ {0} /\ MaxResponse \in Nat \ {0} /\ MaxBlock \in Nat \ {0}

VARIABLES now,   \* the number of the response the server would give
          stack  \* the screens: kind, components, what was drawn, and whether
                 \* a refresh has thrown before it was done

screenVars == <<now, stack>>

-----------------------------------------------------------------------------
(* The screens: for each block whether it is expanded at first; if blocks  *)
(* can be folded; what can be pushed from it; and what its refresh does:   *)
(* "clear": clears, then requests; "keep": requests, then clears;          *)
(* "append": requests, and clears nothing.                                 *)

Screen(blocks, folds, refresh, opens) ==
  [blocks |-> blocks, folds |-> folds, refresh |-> refresh, opens |-> opens]

PerMember(open) == [i \in 1 .. NumOfMember |-> open]

UIListServer == Screen(<<TRUE>>, FALSE, "none", {"server", "jvm", "metric"})
UIClusterRegistration == Screen(PerMember(FALSE), TRUE, "none", {"jvm", "metric"})
UIListModule == Screen(PerMember(TRUE), TRUE, "none", {})
UIServerRegistration == Screen(<<TRUE, TRUE>>, FALSE, "none", {"jvm", "metric"})
UIJVMInfo == Screen(<<TRUE, TRUE>>, TRUE, "clear", {"monitor"})
UIMonitorDetail == Screen(<<TRUE, TRUE>>, TRUE, "none", {})
UIMetric == Screen(<<TRUE, FALSE>>, TRUE, "clear", {})
UIJobScheduler == Screen(<<TRUE, TRUE, TRUE>>, TRUE, "keep", {"job"})
UIRingBearerJob == Screen(<<TRUE, TRUE, TRUE, TRUE>>, FALSE, "none", {})
UIListApplication == Screen(<<TRUE>>, TRUE, "append", {"application"})
UIApplication == Screen(<<TRUE, TRUE>>, FALSE, "none", {})
UINodes == Screen(<<TRUE>>, FALSE, "none", {"node"})
UINodeDetail == Screen(<<TRUE, TRUE, TRUE, TRUE, TRUE>>, TRUE, "none", {})
UIIndices == Screen(<<TRUE, TRUE, TRUE, TRUE>>, TRUE, "none", {})
UISearch == Screen(<<TRUE, TRUE>>, FALSE, "keep", {})  \* the answer, its hits
UIClusterMetric == Screen(<<TRUE>>, FALSE, "none", {})

Kind ==
  [ servers |-> UIListServer, registrations |-> UIClusterRegistration,
    modules |-> UIListModule, server |-> UIServerRegistration,
    jvm |-> UIJVMInfo, monitor |-> UIMonitorDetail, metric |-> UIMetric,
    jobs |-> UIJobScheduler, job |-> UIRingBearerJob,
    applications |-> UIListApplication, application |-> UIApplication,
    nodes |-> UINodes, node |-> UINodeDetail, indices |-> UIIndices, search |-> UISearch,
    metrics |-> UIClusterMetric ]

\* Those the plugins' navigation selects; those it shows in a callback have
\* already replaced the workspace when their constructor throws.
Root == {"servers", "registrations", "modules", "server", "jobs", "applications",
         "nodes", "indices", "search", "metrics"}
Lazy == {"jobs", "applications"}

\* Bug: a detail asks the server again.
FromBelow_None == {}

\* Those that show the data of the block they are pushed from.
FromBelow == {"monitor", "job", "node"}

-----------------------------------------------------------------------------
Blocks(kind, data) ==
  [i \in DOMAIN Kind[kind].blocks |-> [data |-> data, open |-> Kind[kind].blocks[i]]]

Drawn(kind, comps) == [kind |-> kind, comps |-> comps, page |-> comps, torn |-> FALSE]

New(kind, data) == Drawn(kind, Blocks(kind, data))

Top == stack[Len(stack)]
SetTop(s) == stack' = [stack EXCEPT ![Len(stack)] = s]

ScreensInit == now = 1 /\ stack = <<>>

Change == now < MaxResponse /\ now' = now + 1 /\ UNCHANGED stack

\* The navigation shows a screen, in a UIBreadcumbs of its own.
Show(kind) ==
  /\ stack' = <<New(kind, now)>>
  /\ UNCHANGED now

ShowFails(kind) ==
  /\ kind \in Lazy
  /\ stack' = <<>>
  /\ UNCHANGED now

\* An action in a block, if it is expanded.  The block's own data is what was
\* drawn, even if the screen has lost its components.
Push(kind, i) ==
  /\ stack # <<>> /\ kind \in Kind[Top.kind].opens
  /\ i \in DOMAIN Top.page /\ Top.page[i].open
  /\ stack' = Append(stack, New(kind, IF kind \in FromBelow THEN Top.page[i].data ELSE now))
  /\ UNCHANGED now

Refreshable == stack # <<>> /\ Kind[Top.kind].refresh # "none"

\* Bug: the new blocks come after the old ones.
RefreshedBlocks_Append == Top.comps \o Blocks(Top.kind, now)

RefreshedBlocks ==
  IF Kind[Top.kind].refresh = "append" THEN Top.comps \o Blocks(Top.kind, now)
  ELSE Blocks(Top.kind, now)

Refresh ==
  /\ Refreshable
  /\ Kind[Top.kind].refresh = "append" => Len(Top.comps) < MaxBlock
  /\ SetTop(Drawn(Top.kind, RefreshedBlocks))
  /\ UNCHANGED now

\* The response has no result, or lacks what a block is made of: the handler
\* throws when it has cleared the screen and added i blocks, before it renders.
\* Without a response at all i is 0, but the job scheduler has not yet cleared.
RefreshFails(i) ==
  /\ Refreshable
  /\ Top.kind = "jobs" \/ Kind[Top.kind].refresh = "clear"
  /\ i < Len(Kind[Top.kind].blocks)
  /\ SetTop([Top EXCEPT !.comps = SubSeq(Blocks(Top.kind, now), 1, i), !.torn = TRUE])
  /\ UNCHANGED now

NoAnswer == 0

\* A search without a response, or with an error: the answer is gone, the
\* table of hits is the one before, and nothing is rendered.
SearchFails ==
  /\ stack # <<>> /\ Top.kind = "search"
  /\ SetTop([Top EXCEPT !.comps[1].data = NoAnswer, !.torn = TRUE])
  /\ UNCHANGED now

\* onToggleBlock; without components[i] it throws.
ToggleBlock(i) ==
  /\ stack # <<>> /\ Kind[Top.kind].folds
  /\ i \in DOMAIN Top.page \cap DOMAIN Top.comps
  /\ SetTop([Top EXCEPT !.comps[i].open = ~@, !.page[i].open = ~Top.comps[i].open])
  /\ UNCHANGED now

\* A crumb, or the Back of a screen that has one: the screen is rendered, but
\* for a search without an answer, of which the template throws.
Select(n) ==
  /\ n \in DOMAIN stack
  /\ stack' = [SubSeq(stack, 1, n) EXCEPT
                 ![n].page = IF stack[n].kind = "search" /\ stack[n].comps[1].data = NoAnswer
                             THEN @ ELSE stack[n].comps]
  /\ UNCHANGED now

ScreensNext ==
  \/ Change
  \/ \E kind \in Root : Show(kind) \/ ShowFails(kind)
  \/ \E kind \in DOMAIN Kind : \E i \in 1 .. MaxBlock : Push(kind, i)
  \/ Refresh
  \/ \E i \in 0 .. MaxBlock : RefreshFails(i)
  \/ SearchFails
  \/ \E i \in 1 .. MaxBlock : ToggleBlock(i)
  \/ \E n \in 1 .. Len(stack) : Select(n)

ScreensSpec == ScreensInit /\ [][ScreensNext]_screenVars

-----------------------------------------------------------------------------
(* Properties                                                              *)

\* The blocks are from one response, but for the list of applications, to
\* which every refresh adds a block.
OneStory(kind, blocks) ==
  \A i, j \in DOMAIN blocks :
    IF kind = "applications" THEN i <= j => blocks[i].data <= blocks[j].data
    ELSE blocks[i].data = blocks[j].data

\* The page of a screen always tells one story.  A screen that is on top or
\* comes back is the one that was left, blocks folded as they were.  Where a
\* refresh failed half-way, the components are not what is drawn: they are the
\* first blocks of the response that lacked the rest, or the hits of the last
\* search that was answered, which is still on the page.
ScreensAreWhole ==
  \A n \in DOMAIN stack : LET s == stack[n] IN
    /\ OneStory(s.kind, s.page)
    /\ IF ~s.torn
       THEN /\ s.page = s.comps
            /\ Len(s.page) = Len(Kind[s.kind].blocks) \/ s.kind = "applications"
       ELSE IF s.kind = "search" THEN Len(s.page) = 2 /\ s.comps[2] = s.page[2]
       ELSE OneStory(s.kind, s.comps) /\ Len(s.comps) < Len(Kind[s.kind].blocks)

\* A detail never tells something else than the screen it was opened from,
\* which is still below it and comes back when the detail is left.
DetailsBelong ==
  \A n \in 2 .. Len(stack) :
    stack[n].kind \in {"monitor", "job", "node"} =>
      \E i \in DOMAIN stack[n - 1].page :
        \A j \in DOMAIN stack[n].page : stack[n].page[j].data = stack[n - 1].page[i].data
=============================================================================
