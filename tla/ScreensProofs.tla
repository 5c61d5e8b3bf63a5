---------------------------- MODULE ScreensProofs ----------------------------
(***************************************************************************)
(* The screens of the stack stay whole, and a detail belongs to the screen *)
(* below it, for any number of members, of responses and of blocks.  The   *)
(* second half is about the tree table, in which a screen lists the        *)
(* metrics of a cluster: its rows show its tree, for every tree.           *)
(***************************************************************************)
EXTENDS Screens, UITableTree, SequenceTheorems, FiniteSetTheorems, WellFoundedInduction, TLAPS

-----------------------------------------------------------------------------
(* The inductive invariant                                                 *)

Block == [data : Nat, open : BOOLEAN]
ScreenType == [kind : DOMAIN Kind, comps : Seq(Block), page : Seq(Block), torn : BOOLEAN]

\* How the components of a screen fit what is drawn.
Agree(s) ==
  IF ~s.torn
  THEN /\ s.page = s.comps
       /\ Len(s.page) = Len(Kind[s.kind].blocks) \/ s.kind = "applications"
  ELSE IF s.kind = "search" THEN /\ Len(s.page) = 2 /\ Len(s.comps) = 2
                                   /\ s.comps[1].data = NoAnswer /\ s.comps[2] = s.page[2]
  ELSE OneStory(s.kind, s.comps) /\ Len(s.comps) < Len(Kind[s.kind].blocks)

\* What holds of a screen by itself.
Whole(s, n) ==
  /\ s \in ScreenType
  /\ s.kind \in FromBelow \cup {"applications"} => ~s.torn
  /\ OneStory(s.kind, s.page)
  /\ Agree(s)
  /\ \A i \in DOMAIN s.page : s.page[i].data <= n
  /\ \A i \in DOMAIN s.comps : s.comps[i].data <= n

\* What holds of a screen and the one below it.
Belongs(s, below) ==
  s.kind \in FromBelow =>
    \E i \in DOMAIN below.page : \A j \in DOMAIN s.page : s.page[j].data = below.page[i].data

IInv ==
  /\ now \in Nat
  /\ stack \in Seq(ScreenType)
  /\ \A n \in 1 .. Len(stack) : Whole(stack[n], now)
  /\ \A n \in 2 .. Len(stack) : Belongs(stack[n], stack[n - 1])

USE ScreensAssumption

\* An element of a sequence of blocks is a block.
LEMMA IsBlock ==
  ASSUME NEW q \in Seq(Block), NEW i \in DOMAIN q
  PROVE  /\ q[i] \in Block /\ q[i].data \in Nat
         /\ q[i] = [data |-> q[i].data, open |-> q[i].open]
<1>1. i \in 1 .. Len(q)
  OBVIOUS
<1>2. q[i] \in Block
  BY <1>1
<1> QED
  BY <1>2 DEF Block

-----------------------------------------------------------------------------
(* The kinds of screens                                                    *)

\* What is used of a kind: its blocks are a sequence, only the list of
\* applications grows, a detail is never refreshed, and a search has an answer
\* and its hits, which are not folded.
Fits(k, screen) ==
  /\ screen.blocks \in Seq(BOOLEAN)
  /\ screen.refresh = "append" <=> k = "applications"
  /\ k \in FromBelow => screen.refresh = "none"
  /\ k = "search" => Len(screen.blocks) = 2 /\ ~screen.folds /\ screen.refresh = "keep"

\* Every kind is such a one.
LEMMA KindFacts == \A k \in DOMAIN Kind : Fits(k, Kind[k])
<1> USE DEF Fits, Screen, FromBelow
<1>0. PerMember(TRUE) \in Seq(BOOLEAN) /\ PerMember(FALSE) \in Seq(BOOLEAN)
  BY DEF PerMember
<1> HIDE DEF PerMember
<1>1. /\ Fits("servers", UIListServer)
      /\ Fits("registrations", UIClusterRegistration)
      /\ Fits("modules", UIListModule)
      /\ Fits("server", UIServerRegistration)
  <2>1. Fits("servers", UIListServer) /\ Fits("server", UIServerRegistration)
    BY DEF UIListServer, UIServerRegistration
  <2>2. Fits("registrations", UIClusterRegistration)
    BY <1>0 DEF UIClusterRegistration
  <2>3. Fits("modules", UIListModule)
    BY <1>0 DEF UIListModule
  <2> QED
    BY <2>1, <2>2, <2>3
<1>2. /\ Fits("jvm", UIJVMInfo)
      /\ Fits("monitor", UIMonitorDetail)
      /\ Fits("metric", UIMetric)
      /\ Fits("jobs", UIJobScheduler)
  BY <1>0 DEF UIJVMInfo, UIMonitorDetail, UIMetric, UIJobScheduler
<1>3. /\ Fits("job", UIRingBearerJob)
      /\ Fits("applications", UIListApplication)
      /\ Fits("application", UIApplication)
      /\ Fits("nodes", UINodes)
  BY <1>0 DEF UIRingBearerJob, UIListApplication, UIApplication, UINodes
<1>4. /\ Fits("node", UINodeDetail)
      /\ Fits("indices", UIIndices)
      /\ Fits("search", UISearch)
      /\ Fits("metrics", UIClusterMetric)
  <2>1. Fits("node", UINodeDetail) /\ Fits("indices", UIIndices)
    BY DEF UINodeDetail, UIIndices
  <2>2. Fits("search", UISearch) /\ Fits("metrics", UIClusterMetric)
    BY DEF UISearch, UIClusterMetric
  <2> QED
    BY <2>1, <2>2
<1> HIDE DEF Fits, Screen, FromBelow
<1> QED
  BY <1>1, <1>2, <1>3, <1>4 DEF Kind

\* A new screen is whole.
LEMMA NewIsWhole ==
  ASSUME NEW k \in DOMAIN Kind, NEW d \in Nat, NEW n \in Nat, d <= n
  PROVE  /\ Whole(New(k, d), n)
         /\ New(k, d).kind = k
         /\ \A j \in DOMAIN New(k, d).page : New(k, d).page[j].data = d
<1>1. PICK bs \in Seq(BOOLEAN) : bs = Kind[k].blocks
  BY KindFacts DEF Fits
<1>2. PICK b : b = Blocks(k, d)
  OBVIOUS
<1>3. b = [i \in 1 .. Len(bs) |-> [data |-> d, open |-> bs[i]]]
  BY <1>1, <1>2 DEF Blocks
<1>4. \A i \in 1 .. Len(bs) : b[i] \in Block /\ b[i].data = d
  BY <1>3 DEF Block
<1>5. b \in Seq(Block) /\ Len(b) = Len(bs) /\ DOMAIN b = 1 .. Len(bs)
  BY <1>3, <1>4
<1>6. PICK s : s = New(k, d)
  OBVIOUS
<1>7. s = [kind |-> k, comps |-> b, page |-> b, torn |-> FALSE]
  BY <1>2, <1>6 DEF New, Drawn
<1>8. s \in ScreenType
  BY <1>5, <1>7 DEF ScreenType
<1>9. s.kind = k /\ s.comps = b /\ s.page = b /\ s.torn = FALSE
  BY <1>7
<1>10. OneStory(k, b)
  BY <1>4, <1>5 DEF OneStory
<1>11. Whole(s, n)
  BY <1>1, <1>4, <1>5, <1>8, <1>9, <1>10 DEF Whole, Agree
<1> QED
  BY <1>4, <1>5, <1>6, <1>9, <1>11

-----------------------------------------------------------------------------
(* What happens to the stack                                               *)

\* The stack up to some screen is as it was, and that screen is on top.
LEMMA TopStep ==
  ASSUME IInv, UNCHANGED now, NEW m \in Nat \ {0}, m - 1 <= Len(stack),
         stack' \in Seq(ScreenType), Len(stack') = m,
         \A i \in 1 .. m - 1 : stack'[i] = stack[i],
         Whole(stack'[m], now),
         m # 1 => Belongs(stack'[m], stack[m - 1])
  PROVE  IInv'
<1>0. Len(stack) \in Nat /\ now' = now
  BY DEF IInv
<1>1. ASSUME NEW n \in 1 .. m PROVE Whole(stack'[n], now')
  <2>1. CASE n = m
    BY <1>0, <2>1
  <2>2. CASE n # m
    <3>1. n \in 1 .. m - 1 /\ n \in 1 .. Len(stack)
      BY <1>0, <2>2
    <3>2. stack'[n] = stack[n] /\ Whole(stack[n], now)
      BY <3>1 DEF IInv
    <3> QED
      BY <1>0, <3>2
  <2> QED
    BY <2>1, <2>2
<1>2. ASSUME NEW n \in 2 .. m PROVE Belongs(stack'[n], stack'[n - 1])
  <2>1. n - 1 \in 1 .. m - 1 /\ stack'[n - 1] = stack[n - 1]
    OBVIOUS
  <2>2. CASE n = m
    BY <2>1, <2>2
  <2>3. CASE n # m
    <3>1. n \in 1 .. m - 1 /\ n \in 2 .. Len(stack)
      BY <1>0, <2>3
    <3>2. stack'[n] = stack[n] /\ Belongs(stack[n], stack[n - 1])
      BY <3>1 DEF IInv
    <3> QED
      BY <2>1, <3>2
  <2> QED
    BY <2>2, <2>3
<1> QED
  BY <1>0, <1>1, <1>2 DEF IInv

\* The screen on top is replaced, by one with blocks that tell the same or of
\* a kind that need not belong to the one below.
LEMMA SetTopStep ==
  ASSUME IInv, UNCHANGED now, stack # <<>>, NEW s, SetTop(s), Whole(s, now),
         Belongs(Top, stack[Len(stack) - 1]) => Belongs(s, stack[Len(stack) - 1])
  PROVE  IInv'
<1>1. stack \in Seq(ScreenType) /\ Len(stack) \in Nat \ {0} /\ s \in ScreenType
  BY DEF IInv, Whole
<1>2. stack' = [stack EXCEPT ![Len(stack)] = s]
  BY DEF SetTop
<1>3. /\ stack' \in Seq(ScreenType) /\ Len(stack') = Len(stack)
      /\ stack'[Len(stack)] = s
      /\ \A i \in 1 .. Len(stack) - 1 : stack'[i] = stack[i]
  BY <1>1, <1>2
<1>4. Len(stack) # 1 => Belongs(stack[Len(stack)], stack[Len(stack) - 1])
  <2>1. \A m \in Nat \ {0} : m # 1 => m \in 2 .. m
    OBVIOUS
  <2>2. \A n \in 2 .. Len(stack) : Belongs(stack[n], stack[n - 1])
    BY DEF IInv
  <2> QED
    BY <1>1, <2>1, <2>2
<1>5. Len(stack) # 1 => Belongs(stack'[Len(stack)], stack[Len(stack) - 1])
  BY <1>3, <1>4 DEF Top
<1>6. Len(stack) - 1 <= Len(stack) /\ Whole(stack'[Len(stack)], now)
  BY <1>1, <1>3
<1> QED
  BY <1>1, <1>3, <1>5, <1>6, TopStep

-----------------------------------------------------------------------------
(* The steps of the screens                                                *)

\* The top of the stack is a whole screen.
LEMMA TopIsWhole ==
  ASSUME IInv, stack # <<>>
  PROVE  /\ Len(stack) \in Nat \ {0} /\ Whole(Top, now) /\ now \in Nat
         /\ stack \in Seq(ScreenType)
<1>1. Len(stack) \in Nat \ {0}
  BY DEF IInv
<1> QED
  BY <1>1 DEF IInv, Top

\* A screen is shown by the navigation.
LEMMA ShowStep == ASSUME IInv, NEW k \in Root, Show(k) PROVE IInv'
<1>1. k \in DOMAIN Kind /\ now \in Nat /\ now <= now
  BY DEF Root, Kind, IInv
<1>2. Whole(New(k, now), now)
  BY <1>1, NewIsWhole
<1>3. PICK s : s = New(k, now)
  OBVIOUS
<1>4. stack' = <<s>> /\ now' = now
  BY <1>3 DEF Show
<1>5. s \in ScreenType
  BY <1>2, <1>3 DEF Whole
<1>6. stack' \in Seq(ScreenType) /\ Len(stack') = 1 /\ stack'[1] = s
  BY <1>4, <1>5
<1>7. 1 - 1 <= Len(stack) /\ \A i \in 1 .. 1 - 1 : stack'[i] = stack[i]
  BY DEF IInv
<1> QED
  BY <1>2, <1>3, <1>4, <1>6, <1>7, TopStep

\* A screen is opened from a block of the one on top.
LEMMA PushStep ==
  ASSUME IInv, NEW k \in DOMAIN Kind, NEW i \in 1 .. MaxBlock, Push(k, i)
  PROVE  IInv'
<1> DEFINE d == IF k \in FromBelow THEN Top.page[i].data ELSE now
<1>1. /\ stack # <<>> /\ i \in DOMAIN Top.page /\ now' = now
      /\ stack' = Append(stack, New(k, d))
  BY DEF Push
<1>2. Len(stack) \in Nat \ {0} /\ Whole(Top, now) /\ now \in Nat /\ stack \in Seq(ScreenType)
  BY <1>1, TopIsWhole
<1>3. d \in Nat /\ d <= now
  <2>1. Top.page \in Seq(Block) /\ Top.page[i].data <= now
    BY <1>1, <1>2 DEF Whole, ScreenType
  <2>2. Top.page[i].data \in Nat
    BY <1>1, <2>1, IsBlock
  <2> QED
    BY <1>2, <2>1, <2>2
<1>4. PICK s : s = New(k, d)
  OBVIOUS
<1>5. /\ Whole(s, now) /\ s.kind = k
      /\ \A j \in DOMAIN s.page : s.page[j].data = d
  BY <1>2, <1>3, <1>4, NewIsWhole
<1>6. Belongs(s, Top)
  BY <1>1, <1>5 DEF Belongs
<1>7. s \in ScreenType
  BY <1>5 DEF Whole
<1>8. /\ stack' \in Seq(ScreenType) /\ Len(stack') = Len(stack) + 1
      /\ stack'[Len(stack) + 1] = s
      /\ \A n \in 1 .. Len(stack) : stack'[n] = stack[n]
  BY <1>1, <1>2, <1>4, <1>7
<1>9. /\ Len(stack) + 1 \in Nat \ {0} /\ (Len(stack) + 1) - 1 = Len(stack)
      /\ Whole(stack'[Len(stack) + 1], now)
      /\ Belongs(stack'[Len(stack) + 1], stack[(Len(stack) + 1) - 1])
  BY <1>2, <1>5, <1>6, <1>8 DEF Top
<1> QED
  BY <1>1, <1>2, <1>8, <1>9, TopStep

\* The screen on top makes its blocks anew.
LEMMA RefreshStep == ASSUME IInv, Refresh PROVE IInv'
<1>1. /\ stack # <<>> /\ Kind[Top.kind].refresh # "none" /\ now' = now
      /\ SetTop(Drawn(Top.kind, RefreshedBlocks))
  BY DEF Refresh, Refreshable
<1>2. /\ Whole(Top, now) /\ now \in Nat /\ now <= now /\ Top \in ScreenType
      /\ Top.kind \in DOMAIN Kind
  BY <1>1, TopIsWhole DEF Whole, ScreenType
<1>3. Fits(Top.kind, Kind[Top.kind])
  BY <1>2, KindFacts
<1>4. Top.kind \notin FromBelow
  BY <1>1, <1>3 DEF Fits
<1>5. PICK s : s = Drawn(Top.kind, RefreshedBlocks)
  OBVIOUS
<1>6. s.kind = Top.kind
  BY <1>5 DEF Drawn
<1>7. Whole(s, now)
  <2>1. CASE Kind[Top.kind].refresh # "append"
    <3>1. s = New(Top.kind, now)
      BY <1>5, <2>1 DEF RefreshedBlocks, New
    <3> QED
      BY <1>2, <3>1, NewIsWhole
  <2>2. CASE Kind[Top.kind].refresh = "append"
    <3>1. Top.kind = "applications"
      BY <1>3, <2>2 DEF Fits
    <3>2. PICK t : t = New(Top.kind, now)
      OBVIOUS
    <3>3. /\ Whole(t, now) /\ t.kind = Top.kind
          /\ \A j \in DOMAIN t.page : t.page[j].data = now
      BY <1>2, <3>2, NewIsWhole
    <3>4. t.comps = Blocks(Top.kind, now) /\ t.page = t.comps
      BY <3>2 DEF New, Drawn
    <3>5. PICK old \in Seq(Block) : old = Top.comps
      BY <1>2 DEF ScreenType
    <3>6. PICK new \in Seq(Block) : new = t.comps
      BY <3>3 DEF Whole, ScreenType
    <3>7. PICK b : b = old \o new
      OBVIOUS
    <3>8. /\ b \in Seq(Block) /\ Len(old) \in Nat /\ Len(new) \in Nat
          /\ DOMAIN b = 1 .. Len(old) + Len(new)
          /\ DOMAIN old = 1 .. Len(old) /\ DOMAIN new = 1 .. Len(new)
          /\ \A i \in 1 .. Len(old) : b[i] = old[i]
          /\ \A i \in 1 .. Len(old) + Len(new) : i \notin 1 .. Len(old) => b[i] = new[i - Len(old)]
      BY <3>7
    <3>9. s = [kind |-> Top.kind, comps |-> b, page |-> b, torn |-> FALSE]
      BY <1>5, <2>2, <3>4, <3>5, <3>6, <3>7 DEF Drawn, RefreshedBlocks
    <3>10. s.page = b /\ s.comps = b /\ s.torn = FALSE
      BY <3>9
    <3>11. s \in ScreenType
      BY <1>2, <3>8, <3>9 DEF ScreenType
    <3>12. \A i \in 1 .. Len(old) : /\ old[i].data <= now
                                    /\ \A j \in 1 .. Len(old) : i <= j => old[i].data <= old[j].data
      <4>1. Top.page = old
        BY <1>2, <3>1, <3>5 DEF Whole, Agree
      <4> QED
        BY <1>2, <3>1, <3>8, <4>1 DEF Whole, OneStory
    <3>13. \A i \in 1 .. Len(new) : new[i].data = now
      BY <3>3, <3>4, <3>6, <3>8
    <3>14. \A i \in 1 .. Len(old) + Len(new) :
             IF i \in 1 .. Len(old) THEN b[i].data = old[i].data ELSE b[i].data = now
      <4> TAKE i \in 1 .. Len(old) + Len(new)
      <4>1. CASE i \in 1 .. Len(old)
        BY <3>8, <4>1
      <4>2. CASE i \notin 1 .. Len(old)
        <5>1. i - Len(old) \in 1 .. Len(new)
          BY <3>8, <4>2
        <5> QED
          BY <3>8, <3>13, <4>2, <5>1
      <4> QED
        BY <4>1, <4>2
    <3>15. \A i \in DOMAIN b : b[i].data <= now
      BY <1>2, <3>8, <3>12, <3>14
    <3>16. OneStory(s.kind, b)
      <4> SUFFICES ASSUME NEW i \in DOMAIN b, NEW j \in DOMAIN b, i <= j
                   PROVE  b[i].data <= b[j].data
        BY <1>6, <3>1 DEF OneStory
      <4>1. CASE j \in 1 .. Len(old)
        <5>1. i \in 1 .. Len(old)
          BY <3>8, <4>1
        <5> QED
          BY <3>8, <3>12, <4>1, <5>1
      <4>2. CASE j \notin 1 .. Len(old)
        <5>1. b[j].data = now
          BY <3>8, <3>14, <4>2
        <5> QED
          BY <3>15, <5>1
      <4> QED
        BY <4>1, <4>2
    <3> QED
      BY <1>6, <3>1, <3>10, <3>11, <3>15, <3>16 DEF Whole, Agree
  <2> QED
    BY <2>1, <2>2
<1>8. Belongs(s, stack[Len(stack) - 1])
  BY <1>4, <1>6 DEF Belongs
<1> QED
  BY <1>1, <1>5, <1>7, <1>8, SetTopStep

\* A refresh that fails half-way leaves the first of the new blocks.
LEMMA RefreshFailsStep == ASSUME IInv, NEW i \in 0 .. MaxBlock, RefreshFails(i) PROVE IInv'
<1>1. /\ stack # <<>> /\ Kind[Top.kind].refresh # "none" /\ now' = now
      /\ Top.kind = "jobs" \/ Kind[Top.kind].refresh = "clear"
      /\ i < Len(Kind[Top.kind].blocks)
      /\ SetTop([Top EXCEPT !.comps = SubSeq(Blocks(Top.kind, now), 1, i), !.torn = TRUE])
  BY DEF RefreshFails, Refreshable
<1>2. PICK t \in ScreenType : t = Top
  BY <1>1, TopIsWhole DEF Whole
<1>3. Whole(t, now) /\ t.kind \in DOMAIN Kind /\ now \in Nat
  BY <1>1, <1>2, TopIsWhole DEF ScreenType
<1>4. t.kind \notin FromBelow \cup {"applications", "search"}
  BY <1>1, <1>2, <1>3, KindFacts DEF Fits
<1>5. PICK new : new = Blocks(t.kind, now)
  OBVIOUS
<1>6. /\ new \in Seq(Block) /\ Len(new) = Len(Kind[t.kind].blocks)
      /\ \A j \in 1 .. Len(new) : new[j].data = now
  <2>1. New(t.kind, now) = [kind |-> t.kind, comps |-> new, page |-> new, torn |-> FALSE]
    BY <1>5 DEF New, Drawn
  <2>2. PICK n : n = New(t.kind, now)
    OBVIOUS
  <2>3. n.page = new /\ n.kind = t.kind /\ n.comps = new /\ ~n.torn
    BY <2>1, <2>2
  <2>4. Whole(n, now) /\ \A j \in DOMAIN n.page : n.page[j].data = now
    BY <1>3, <2>2, NewIsWhole
  <2>5. new \in Seq(Block)
    BY <2>3, <2>4 DEF Whole, ScreenType
  <2>6. Len(new) = Len(Kind[t.kind].blocks)
    BY <1>4, <2>3, <2>4 DEF Whole, Agree
  <2> QED
    BY <2>3, <2>4, <2>5, <2>6
<1>7. PICK b : b = SubSeq(new, 1, i)
  OBVIOUS
<1>8. /\ b \in Seq(Block) /\ Len(b) = i /\ DOMAIN b = 1 .. i
      /\ \A j \in 1 .. i : b[j].data = now
  <2>1. PICK len \in Nat : len = Len(new) /\ i < len /\ i \in Nat
    BY <1>1, <1>2, <1>6
  <2>2. /\ b \in Seq(Block) /\ Len(b) = i /\ \A j \in 1 .. i : b[j] = new[j]
    <3>1. \A j \in 1 .. i : new[j] \in Block
      BY <1>6, <2>1, ElementOfSeq
    <3>2. /\ SubSeq(new, 1, i) \in Seq(Block)
          /\ Len(SubSeq(new, 1, i)) = IF 1 <= i THEN i - 1 + 1 ELSE 0
          /\ \A j \in 1 .. i - 1 + 1 : SubSeq(new, 1, i)[j] = new[1 + j - 1]
      BY <2>1, <3>1, SubSeqProperties
    <3>3. (IF 1 <= i THEN i - 1 + 1 ELSE 0) = i /\ i - 1 + 1 = i
      BY <2>1
    <3>4. \A j \in 1 .. i : 1 + j - 1 = j
      OBVIOUS
    <3> QED
      BY <1>7, <3>2, <3>3, <3>4
  <2>3. \A j \in 1 .. i : b[j].data = now
    BY <1>6, <2>1, <2>2
  <2> QED
    BY <2>2, <2>3
<1>9. PICK s : s = [t EXCEPT !.comps = b, !.torn = TRUE]
  OBVIOUS
<1>10. /\ s \in ScreenType /\ s.kind = t.kind /\ s.page = t.page
       /\ s.comps = b /\ s.torn = TRUE
  <2>1. s = [kind |-> t.kind, comps |-> b, page |-> t.page, torn |-> TRUE]
    BY <1>9 DEF ScreenType
  <2>2. t.kind \in DOMAIN Kind /\ t.page \in Seq(Block)
    BY DEF ScreenType
  <2> QED
    BY <1>8, <2>1, <2>2 DEF ScreenType
<1>11. Agree(s)
  <2>1. OneStory(s.kind, s.comps)
    BY <1>4, <1>8, <1>10 DEF OneStory
  <2>2. Len(s.comps) < Len(Kind[s.kind].blocks)
    BY <1>1, <1>2, <1>8, <1>10
  <2> QED
    BY <1>4, <1>10, <2>1, <2>2 DEF Agree
<1>12. Whole(s, now)
  <2>1. \A j \in DOMAIN s.comps : s.comps[j].data <= now
    BY <1>3, <1>8, <1>10
  <2> QED
    BY <1>3, <1>4, <1>10, <1>11, <2>1 DEF Whole
<1>13. Belongs(s, stack[Len(stack) - 1])
  BY <1>4, <1>10 DEF Belongs
<1>14. SetTop(s)
  BY <1>1, <1>2, <1>5, <1>7, <1>9
<1> QED
  BY <1>1, <1>12, <1>13, <1>14, SetTopStep

\* A search without an answer keeps the hits of the one before.
LEMMA SearchFailsStep == ASSUME IInv, SearchFails PROVE IInv'
<1>1. /\ stack # <<>> /\ now' = now /\ Top.kind = "search"
      /\ SetTop([Top EXCEPT !.comps[1].data = NoAnswer, !.torn = TRUE])
  BY DEF SearchFails
<1>2. PICK t \in ScreenType : t = Top
  BY <1>1, TopIsWhole DEF Whole
<1>3. Whole(t, now) /\ t.kind \in DOMAIN Kind /\ now \in Nat /\ t.kind = "search"
  BY <1>1, <1>2, TopIsWhole DEF ScreenType
<1>4. /\ t.comps \in Seq(Block) /\ t.page \in Seq(Block)
  BY DEF ScreenType
<1>5. Len(t.page) = 2 /\ Len(t.comps) = 2 /\ t.comps[2] = t.page[2]
  <2>1. Len(Kind[t.kind].blocks) = 2
    BY <1>3, KindFacts DEF Fits
  <2> QED
    BY <1>3, <2>1 DEF Whole, Agree
<1>6. PICK x : x = [t.comps[1] EXCEPT !.data = NoAnswer]
  OBVIOUS
<1>7. x \in Block /\ x.data = 0
  <2>1. t.comps[1] \in Block
    BY <1>4, <1>5, ElementOfSeq
  <2> QED
    BY <1>6, <2>1 DEF Block, NoAnswer
<1>8. PICK b : b = [t.comps EXCEPT ![1] = x]
  OBVIOUS
<1>9. b \in Seq(Block) /\ Len(b) = 2 /\ b[1] = x /\ b[2] = t.comps[2] /\ DOMAIN b = 1 .. 2
  BY <1>4, <1>5, <1>7, <1>8
<1>10. PICK s : s = [t EXCEPT !.comps[1].data = NoAnswer, !.torn = TRUE]
  OBVIOUS
<1>11. s = [kind |-> t.kind, comps |-> b, page |-> t.page, torn |-> TRUE]
  BY <1>6, <1>8, <1>10 DEF ScreenType
<1>12. /\ s \in ScreenType /\ s.kind = t.kind /\ s.page = t.page
       /\ s.comps = b /\ s.torn = TRUE
  BY <1>3, <1>4, <1>9, <1>11 DEF ScreenType
<1>13. Agree(s)
  BY <1>3, <1>5, <1>7, <1>9, <1>12 DEF Agree, NoAnswer
<1>14. \A j \in DOMAIN s.comps : s.comps[j].data <= now
  <2>1. b[1].data <= now
    BY <1>3, <1>7, <1>9
  <2>2. b[2].data <= now
    <3>1. 2 \in DOMAIN t.comps
      BY <1>4, <1>5
    <3> QED
      BY <1>3, <1>9, <3>1 DEF Whole
  <2>3. \A j \in 1 .. 2 : j = 1 \/ j = 2
    OBVIOUS
  <2> QED
    BY <1>9, <1>12, <2>1, <2>2, <2>3
<1>15. s.kind \notin FromBelow \cup {"applications"}
  BY <1>3, <1>12 DEF FromBelow
<1>16. Whole(s, now)
  BY <1>3, <1>12, <1>13, <1>14, <1>15 DEF Whole
<1>17. Belongs(s, stack[Len(stack) - 1])
  BY <1>15 DEF Belongs
<1>18. SetTop(s)
  BY <1>1, <1>2, <1>10
<1> QED
  BY <1>1, <1>16, <1>17, <1>18, SetTopStep

\* A block of a sequence is folded or unfolded.
LEMMA FoldFacts ==
  ASSUME NEW q \in Seq(Block), NEW i \in DOMAIN q, NEW o \in BOOLEAN,
         NEW b, b = [q EXCEPT ![i].open = o]
  PROVE  /\ b \in Seq(Block) /\ DOMAIN b = DOMAIN q /\ Len(b) = Len(q)
         /\ \A j \in DOMAIN b : b[j].data = q[j].data
<1>1. PICK x \in Block : x = q[i]
  BY IsBlock
<1>2. PICK y : y = [x EXCEPT !.open = o]
  OBVIOUS
<1>3. y \in Block /\ y.data = x.data
  BY <1>2 DEF Block
<1>4. b = [q EXCEPT ![i] = y]
  BY <1>1, <1>2
<1> QED
  BY <1>1, <1>3, <1>4

\* Folding a block changes nothing of what it tells.
LEMMA ToggleBlockStep == ASSUME IInv, NEW i \in 1 .. MaxBlock, ToggleBlock(i) PROVE IInv'
<1>1. PICK t : t = Top
  OBVIOUS
<1>2. /\ stack # <<>> /\ i \in DOMAIN t.page /\ i \in DOMAIN t.comps /\ now' = now
      /\ Kind[t.kind].folds
      /\ SetTop([t EXCEPT !.comps[i].open = ~@, !.page[i].open = ~t.comps[i].open])
  BY <1>1 DEF ToggleBlock
<1>3. Whole(t, now) /\ t \in ScreenType
  BY <1>1, <1>2, TopIsWhole DEF Whole
<1>4. t.comps \in Seq(Block) /\ t.page \in Seq(Block) /\ t.kind \in DOMAIN Kind
      /\ t.torn \in BOOLEAN
  BY <1>3 DEF ScreenType
<1>5. t.kind # "search"
  BY <1>2, <1>4, KindFacts DEF Fits
<1>6. PICK o \in BOOLEAN : o = ~t.comps[i].open
  OBVIOUS
<1>7. PICK b : b = [t.comps EXCEPT ![i].open = o]
  OBVIOUS
<1>8. PICK c : c = [t.page EXCEPT ![i].open = o]
  OBVIOUS
<1>9. b \in Seq(Block) /\ DOMAIN b = DOMAIN t.comps /\ Len(b) = Len(t.comps)
      /\ \A j \in DOMAIN b : b[j].data = t.comps[j].data
  <2>1. PICK q \in Seq(Block) : q = t.comps
    BY <1>4
  <2>2. i \in DOMAIN q /\ b = [q EXCEPT ![i].open = o]
    BY <1>2, <1>7, <2>1
  <2>3. /\ b \in Seq(Block) /\ DOMAIN b = DOMAIN q /\ Len(b) = Len(q)
        /\ \A j \in DOMAIN b : b[j].data = q[j].data
    BY <2>2, FoldFacts
  <2> QED
    BY <2>1, <2>3
<1>10. c \in Seq(Block) /\ DOMAIN c = DOMAIN t.page /\ Len(c) = Len(t.page)
       /\ \A j \in DOMAIN c : c[j].data = t.page[j].data
  <2>1. PICK q \in Seq(Block) : q = t.page
    BY <1>4
  <2>2. i \in DOMAIN q /\ c = [q EXCEPT ![i].open = o]
    BY <1>2, <1>8, <2>1
  <2>3. /\ c \in Seq(Block) /\ DOMAIN c = DOMAIN q /\ Len(c) = Len(q)
        /\ \A j \in DOMAIN c : c[j].data = q[j].data
    BY <2>2, FoldFacts
  <2> QED
    BY <2>1, <2>3
<1>11. PICK s : s = [t EXCEPT !.comps[i].open = ~@, !.page[i].open = ~t.comps[i].open]
  OBVIOUS
<1>12. s = [kind |-> t.kind, comps |-> b, page |-> c, torn |-> t.torn]
  BY <1>3, <1>6, <1>7, <1>8, <1>11 DEF ScreenType
<1>13. /\ s \in ScreenType /\ s.kind = t.kind /\ s.page = c /\ s.comps = b
       /\ s.torn = t.torn
  BY <1>4, <1>9, <1>10, <1>12 DEF ScreenType
<1>14. OneStory(s.kind, s.page)
  BY <1>3, <1>10, <1>13 DEF Whole, OneStory
<1>15. Agree(s)
  <2>1. CASE t.torn
    <3>1. OneStory(t.kind, t.comps) /\ Len(t.comps) < Len(Kind[t.kind].blocks)
      BY <1>3, <1>5, <2>1 DEF Whole, Agree
    <3>2. OneStory(s.kind, s.comps)
      BY <1>9, <1>13, <3>1 DEF OneStory
    <3> QED
      BY <1>5, <1>9, <1>13, <2>1, <3>1, <3>2 DEF Agree
  <2>2. CASE ~t.torn
    BY <1>3, <1>7, <1>8, <1>9, <1>13, <2>2 DEF Whole, Agree
  <2> QED
    BY <2>1, <2>2
<1>16. Whole(s, now)
  BY <1>3, <1>9, <1>10, <1>13, <1>14, <1>15 DEF Whole
<1>17. \A below : Belongs(t, below) => Belongs(s, below)
  BY <1>10, <1>13 DEF Belongs
<1> QED
  BY <1>1, <1>2, <1>11, <1>16, <1>17, SetTopStep

\* A screen comes back as its components are.
LEMMA SelectStep == ASSUME IInv, NEW n \in 1 .. Len(stack), Select(n) PROVE IInv'
<1>1. /\ stack \in Seq(ScreenType) /\ Len(stack) \in Nat /\ n \in Nat \ {0} /\ now' = now
      /\ stack' = [SubSeq(stack, 1, n) EXCEPT
                     ![n].page = IF stack[n].kind = "search" /\ stack[n].comps[1].data = NoAnswer
                                 THEN @ ELSE stack[n].comps]
  BY DEF IInv, Select
<1>2. PICK low : low = SubSeq(stack, 1, n)
  OBVIOUS
<1>3. /\ low \in Seq(ScreenType) /\ Len(low) = n
      /\ \A i \in 1 .. n : low[i] = stack[i]
  <2>1. \A i \in 1 .. n : stack[i] \in ScreenType
    BY <1>1
  <2>2. /\ SubSeq(stack, 1, n) \in Seq(ScreenType)
        /\ Len(SubSeq(stack, 1, n)) = IF 1 <= n THEN n - 1 + 1 ELSE 0
        /\ \A i \in 1 .. n - 1 + 1 : SubSeq(stack, 1, n)[i] = stack[1 + i - 1]
    BY <1>1, <2>1, SubSeqProperties
  <2> QED
    BY <1>1, <1>2, <2>2
<1>4. PICK t \in ScreenType : t = stack[n]
  BY <1>1
<1>5. PICK redraws \in BOOLEAN :
        /\ ~redraws => t.kind = "search"
        /\ redraws => t.kind # "search" \/ t.comps[1].data # NoAnswer
        /\ stack' = [low EXCEPT ![n].page = IF redraws THEN t.comps ELSE @]
  <2>1. PICK redraws \in BOOLEAN :
          redraws = ~(t.kind = "search" /\ t.comps[1].data = NoAnswer)
    OBVIOUS
  <2>2. CASE redraws
    BY <1>1, <1>2, <1>4, <2>1, <2>2
  <2>3. CASE ~redraws
    BY <1>1, <1>2, <1>4, <2>1, <2>3
  <2> QED
    BY <2>2, <2>3
<1>13. PICK s : s = [t EXCEPT !.page = IF redraws THEN t.comps ELSE t.page]
  OBVIOUS
<1>6. /\ s \in ScreenType /\ s.kind = t.kind /\ s.comps = t.comps
      /\ s.page = IF redraws THEN t.comps ELSE t.page
      /\ s.torn = t.torn
  <2>1. PICK q \in Seq(Block) : q = IF redraws THEN t.comps ELSE t.page
    BY DEF ScreenType
  <2>2. s = [t EXCEPT !.page = q]
    BY <1>13, <2>1
  <2> QED
    BY <2>1, <2>2 DEF ScreenType
<1>7. stack' = [low EXCEPT ![n] = s]
  <2>1. low[n] = t
    BY <1>1, <1>3, <1>4
  <2>2. [low EXCEPT ![n].page = IF redraws THEN t.comps ELSE @]
          = [low EXCEPT ![n] = [low[n] EXCEPT !.page = IF redraws THEN t.comps ELSE low[n].page]]
    OBVIOUS
  <2> QED
    BY <1>5, <1>13, <2>1, <2>2
<1>8. /\ stack' \in Seq(ScreenType) /\ Len(stack') = n /\ stack'[n] = s
      /\ \A i \in 1 .. n - 1 : stack'[i] = stack[i]
  <2>1. n \in 1 .. Len(low)
    BY <1>1, <1>3
  <2>2. /\ stack' \in Seq(ScreenType) /\ Len(stack') = Len(low)
    BY <1>3, <1>6, <1>7, <2>1
  <2>3. stack'[n] = s /\ \A i \in 1 .. n - 1 : stack'[i] = low[i]
    BY <1>1, <1>3, <1>7, <2>1
  <2>4. \A i \in 1 .. n - 1 : i \in 1 .. n
    BY <1>1
  <2> QED
    BY <1>3, <2>2, <2>3, <2>4
<1>9. Whole(t, now)
  BY <1>4 DEF IInv
<1>10. Whole(s, now)
  <2>1. CASE ~redraws
    BY <1>6, <1>9, <2>1 DEF Whole, Agree
  <2>2. CASE redraws /\ t.torn
    <3>1. t.kind # "search"
      BY <1>5, <1>9, <2>2 DEF Whole, Agree
    <3>2. OneStory(t.kind, t.comps) /\ Len(t.comps) < Len(Kind[t.kind].blocks)
      BY <1>9, <2>2, <3>1 DEF Whole, Agree
    <3> QED
      BY <1>6, <1>9, <2>2, <3>1, <3>2 DEF Whole, Agree
  <2>3. CASE redraws /\ ~t.torn
    <3>1. t.page = t.comps
      BY <1>9, <2>3 DEF Whole, Agree
    <3> QED
      BY <1>6, <1>9, <2>3, <3>1 DEF Whole, Agree
  <2> QED
    BY <2>1, <2>2, <2>3
<1>11. n # 1 => Belongs(stack'[n], stack[n - 1])
  <2>1. n # 1 => Belongs(t, stack[n - 1])
    BY <1>1, <1>4 DEF IInv
  <2>2. t.kind \in FromBelow => t.page = t.comps
    BY <1>9 DEF Whole, Agree
  <2>3. \A below : Belongs(t, below) => Belongs(s, below)
    BY <1>6, <2>2 DEF Belongs
  <2> QED
    BY <1>8, <2>1, <2>3
<1>12. n - 1 <= Len(stack)
  BY <1>1
<1> QED
  BY <1>1, <1>8, <1>10, <1>11, <1>12, TopStep

\* Every step keeps the invariant.
LEMMA NextIInv == IInv /\ [ScreensNext]_screenVars => IInv'
<1> SUFFICES ASSUME IInv, [ScreensNext]_screenVars PROVE IInv'
  OBVIOUS
<1>1. CASE Change
  <2>1. now \in Nat /\ now' = now + 1 /\ stack' = stack
    BY <1>1 DEF Change, IInv
  <2>2. \A s : Whole(s, now) => Whole(s, now + 1)
    <3> SUFFICES ASSUME NEW s, Whole(s, now) PROVE Whole(s, now + 1)
      OBVIOUS
    <3>1. \A i \in DOMAIN s.page : s.page[i].data \in Nat
      BY IsBlock DEF Whole, ScreenType
    <3>2. \A i \in DOMAIN s.page : s.page[i].data <= now + 1
      BY <2>1, <3>1 DEF Whole
    <3>3. \A i \in DOMAIN s.comps : s.comps[i].data \in Nat
      BY IsBlock DEF Whole, ScreenType
    <3>4. \A i \in DOMAIN s.comps : s.comps[i].data <= now + 1
      BY <2>1, <3>3 DEF Whole
    <3> QED
      BY <3>2, <3>4 DEF Whole
  <2> QED
    BY <2>1, <2>2 DEF IInv
<1>2. ASSUME NEW k \in Root, ShowFails(k) PROVE IInv'
  BY <1>2 DEF ShowFails, IInv
<1>3. CASE UNCHANGED screenVars
  BY <1>3 DEF screenVars, IInv
<1> QED
  BY <1>1, <1>2, <1>3, ShowStep, PushStep, RefreshStep, RefreshFailsStep, SearchFailsStep,
     ToggleBlockStep, SelectStep DEF ScreensNext

\* Every reachable state satisfies the inductive invariant.
LEMMA InductiveInvariant == ScreensSpec => []IInv
<1>1. ScreensInit => IInv
  BY DEF ScreensInit, IInv
<1> QED
  BY <1>1, NextIInv, PTL DEF ScreensSpec

-----------------------------------------------------------------------------
(* The theorems                                                            *)

\* The page of a screen tells one story, and a screen that is on top or comes
\* back is as it was left.  After an onRefresh or a _search that threw, its
\* components are the first blocks of a response, or the hits on the page.
THEOREM ScreensStayWhole == ScreensSpec => []ScreensAreWhole
<1>1. IInv => ScreensAreWhole
  <2> SUFFICES ASSUME IInv PROVE ScreensAreWhole
    OBVIOUS
  <2>1. DOMAIN stack = 1 .. Len(stack) /\ \A n \in 1 .. Len(stack) : Whole(stack[n], now)
    BY DEF IInv
  <2> QED
    BY <2>1 DEF ScreensAreWhole, Whole, Agree
<1> QED
  BY <1>1, InductiveInvariant, PTL

\* A detail tells what the screen it was opened from tells.
THEOREM DetailsStayTrue == ScreensSpec => []DetailsBelong
<1>1. IInv => DetailsBelong
  BY DEF IInv, DetailsBelong, Belongs, FromBelow
<1> QED
  BY <1>1, InductiveInvariant, PTL

-----------------------------------------------------------------------------
(* The tree table, which the screen of the metrics shows                   *)

\* What is below a row that is below another one is below that one too.
LEMMA BelowIsTransitive ==
  ASSUME TypeOK, NEW a \in Row, NEW b \in Below(a), NEW c \in Below(b)
  PROVE  c \in Below(a)
<1>1. Row \subseteq Nat /\ \A k \in Row : depth[k] \in Nat
  BY DEF TypeOK, Row
<1>2. /\ b \in Row /\ c \in Row /\ a < b /\ b < c
      /\ \A k \in Row : a < k /\ k <= b => depth[a] < depth[k]
      /\ \A k \in Row : b < k /\ k <= c => depth[b] < depth[k]
  BY DEF Below
<1>3. depth[a] < depth[b]
  BY <1>1, <1>2
<1>4. ASSUME NEW k \in Row, a < k, k <= c PROVE depth[a] < depth[k]
  <2>1. CASE k <= b
    BY <1>2, <1>4, <2>1
  <2>2. CASE b < k
    BY <1>1, <1>2, <1>3, <1>4, <2>2
  <2> QED BY <1>1, <1>2, <2>1, <2>2
<1> QED BY <1>1, <1>2, <1>4 DEF Below

\* Two rows that have a row below them in common are one below the other.
LEMMA BelowIsNested ==
  ASSUME TypeOK, NEW a \in Row, NEW b \in Row, a < b,
         NEW c \in Below(a), c \in Below(b)
  PROVE  b \in Below(a)
<1>1. Row \subseteq Nat
  BY DEF TypeOK, Row
<1>2. /\ c \in Row /\ b < c
      /\ \A k \in Row : a < k /\ k <= c => depth[a] < depth[k]
  BY DEF Below
<1> QED BY <1>1, <1>2 DEF Below

\* A click on a toggle (UITableTree.js, the handler of '.toggle') leaves every
\* row displayed exactly when no row it is below is closed, if it was so before.
THEOREM ToggleKeepsShown ==
  ASSUME TypeOK, ShownIffUncovered, NEW r \in Row, Toggle(r)
  PROVE  ShownIffUncovered'
<1> USE DEF Toggle
<1>1. Row' = Row /\ \A s \in Row : Below(s)' = Below(s)
  BY DEF Row, Below
<1>2. /\ Row \subseteq Nat /\ r \notin Below(r)
      /\ closed \in [Row -> BOOLEAN] /\ shown \in [Row -> BOOLEAN]
  BY DEF TypeOK, Row, Below
<1>3. SUFFICES ASSUME NEW c \in Row
               PROVE  shown'[c] <=> \A s \in Row : c \in Below(s) => ~closed'[s]
  BY <1>1 DEF ShownIffUncovered
<1>4. shown[c] <=> \A s \in Row : c \in Below(s) => ~closed[s]
  BY DEF ShownIffUncovered
<1>5. \A s \in Row : s # r => closed'[s] = closed[s]
  BY <1>2 DEF Close, Open
<1>6. c \in Affected(r) <=>
        c \in Below(r) /\ \A s \in Below(r) : closed[s] => c \notin Below(s)
  BY DEF Affected
<1>7. Below(r) \subseteq Row
  BY DEF Below
<1>8. CASE Close(r)
  <2>1. closed'[r] /\ (shown'[c] <=> shown[c] /\ c \notin Affected(r))
    BY <1>2, <1>8 DEF Close
  <2>2. CASE c \in Below(r)
    BY <1>4, <1>6, <1>7, <2>1, <2>2
  <2>3. CASE c \notin Below(r)
    BY <1>4, <1>5, <1>6, <2>1, <2>3
  <2> QED BY <2>2, <2>3
<1>9. CASE Open(r)
  <2>1. ~closed'[r] /\ closed[r] /\ (shown'[c] <=> shown[c] \/ c \in Affected(r))
    BY <1>2, <1>9 DEF Open
  <2>2. CASE c \notin Below(r)
    BY <1>4, <1>5, <1>6, <2>1, <2>2
  <2>3. CASE c \in Below(r)
    <3>1. ASSUME NEW s \in Row, s # r, c \in Below(s)
          PROVE  (s \in Below(r)) \/ ~closed[s]
      <4>1. CASE s < r
        <5>1. r \in Below(s)
          BY <2>3, <3>1, <4>1, BelowIsNested
        <5> QED BY <5>1 DEF ShownIffUncovered
      <4>2. CASE r < s
        BY <2>3, <3>1, <4>2, BelowIsNested
      <4> QED BY <1>2, <3>1, <4>1, <4>2
    <3>2. ~shown[c]
      BY <1>4, <2>1, <2>3
    <3>3. r \notin Below(r)
      BY <1>2
    <3> QED BY <1>5, <1>6, <1>7, <2>1, <2>3, <3>1, <3>2, <3>3
  <2> QED BY <2>2, <2>3
<1> QED BY <1>8, <1>9

\* The same in terms of the tree, for every tree: a click keeps a node displayed
\* exactly when all its ancestors are open.
THEOREM ToggleKeepsTree ==
  ASSUME TypeOK, RowsShowTree, NEW r \in Row, Toggle(r)
  PROVE  RowsShowTree'
<1>1. \A a \in Row, c \in Row : IsAncestor(rows[a], rows[c]) <=> c \in Below(a)
  BY DEF RowsShowTree, BelowIsDescendants
<1>2. ShownIffUncovered
  BY <1>1 DEF RowsShowTree, ShownIffUncovered
<1>3. ShownIffUncovered'
  BY <1>2, ToggleKeepsShown
<1>4. Row' = Row /\ rows' = rows /\ \A a \in Row : Below(a)' = Below(a)
  BY DEF Toggle, Row, Below
<1>5. \A c \in Row : shown'[c] <=> \A a \in Row : c \in Below(a) => ~closed'[a]
  BY <1>3, <1>4 DEF ShownIffUncovered
<1>6. BelowIsDescendants'
  BY <1>4 DEF RowsShowTree, BelowIsDescendants, IsAncestor
<1> QED BY <1>1, <1>4, <1>5, <1>6 DEF RowsShowTree

-----------------------------------------------------------------------------
(* The order in which the nodes of the tree table are written              *)

\* A beginning of a node's path.
LEMMA PartFacts ==
  ASSUME NEW n \in Seq(Nat), NEW k \in 0 .. Len(n), NEW a, a = SubSeq(n, 1, k)
  PROVE  a \in Seq(Nat) /\ Len(a) = k /\ \A j \in 1 .. k : a[j] = n[j]
<1>1. PICK len \in Nat : len = Len(n) /\ DOMAIN n = 1 .. len /\ k \in 0 .. len
  BY LenProperties
<1>2. \A j \in 1 .. k : n[j] \in Nat
  BY <1>1, ElementOfSeq
<1>3. /\ SubSeq(n, 1, k) \in Seq(Nat)
      /\ Len(SubSeq(n, 1, k)) = IF 1 <= k THEN k - 1 + 1 ELSE 0
      /\ \A j \in 1 .. k - 1 + 1 : SubSeq(n, 1, k)[j] = n[1 + j - 1]
  BY <1>1, <1>2, SubSeqProperties
<1>4. k - 1 + 1 = k /\ \A j \in 1 .. k : 1 + j - 1 = j
  BY <1>1
<1>5. (IF 1 <= k THEN k - 1 + 1 ELSE 0) = k
  BY <1>1
<1> QED
  BY <1>3, <1>4, <1>5

\* Two paths begin alike when they agree step by step.
LEMMA PartsEqual ==
  ASSUME NEW m \in Seq(Nat), NEW n \in Seq(Nat), NEW k \in Nat, k <= Len(m), k <= Len(n)
  PROVE  SubSeq(m, 1, k) = SubSeq(n, 1, k) <=> \A j \in 1 .. k : m[j] = n[j]
<1>1. k \in 0 .. Len(m) /\ k \in 0 .. Len(n)
  BY LenProperties
<1>2. PICK a : a = SubSeq(m, 1, k)
  OBVIOUS
<1>3. PICK b : b = SubSeq(n, 1, k)
  OBVIOUS
<1>4. a \in Seq(Nat) /\ Len(a) = k /\ \A j \in 1 .. k : a[j] = m[j]
  BY <1>1, <1>2, PartFacts
<1>5. b \in Seq(Nat) /\ Len(b) = k /\ \A j \in 1 .. k : b[j] = n[j]
  BY <1>1, <1>3, PartFacts
<1>6. (\A j \in 1 .. k : a[j] = b[j]) => a = b
  BY <1>4, <1>5, SeqEqual
<1> QED
  BY <1>2, <1>3, <1>4, <1>5, <1>6

\* A prefix, step by step.
LEMMA PrefixFacts ==
  ASSUME NEW m \in Seq(Nat), NEW n \in Seq(Nat)
  PROVE  /\ IsPrefix(m, n) <=> Len(m) <= Len(n) /\ \A j \in 1 .. Len(m) : m[j] = n[j]
         /\ IsAncestor(m, n) <=> Len(m) < Len(n) /\ \A j \in 1 .. Len(m) : m[j] = n[j]
<1>1. PICK x \in Nat : x = Len(m)
  BY LenProperties
<1>2. PICK y \in Nat : y = Len(n)
  BY LenProperties
<1>3. IsPrefix(m, n) <=> x <= y /\ \A j \in 1 .. x : m[j] = n[j]
  <2>1. x <= y => (SubSeq(m, 1, x) = SubSeq(n, 1, x) <=> \A j \in 1 .. x : m[j] = n[j])
    BY <1>1, <1>2, PartsEqual
  <2> QED
    BY <1>1, <1>2, <2>1 DEF IsPrefix
<1>4. x = y /\ (\A j \in 1 .. x : m[j] = n[j]) => m = n
  BY <1>1, <1>2, SeqEqual
<1>5. m = n => x = y
  BY <1>1, <1>2
<1>6. IsAncestor(m, n) <=> x < y /\ \A j \in 1 .. x : m[j] = n[j]
  BY <1>3, <1>4, <1>5 DEF IsAncestor
<1> QED
  BY <1>1, <1>2, <1>3, <1>6

\* The step at which a path comes before another one: up to it they agree, and
\* there the first one ends or has the smaller number.
Parting(m, n, k) ==
  /\ \A j \in 1 .. k - 1 : j <= Len(m) /\ m[j] = n[j]
  /\ k = Len(m) + 1 \/ (k <= Len(m) /\ m[k] < n[k])

\* The order of the rows in terms of that step.
LEMMA BeforeFacts ==
  ASSUME NEW m \in Seq(Nat), NEW n \in Seq(Nat)
  PROVE  WrittenBefore(m, n) <=> \E k \in 1 .. Len(n) : Parting(m, n, k)
<1>1. PICK x \in Nat : x = Len(m) /\ DOMAIN m = 1 .. x
  BY LenProperties
<1>2. PICK y \in Nat : y = Len(n) /\ DOMAIN n = 1 .. y
  BY LenProperties
<1>3. IsAncestor(m, n) <=> x < y /\ \A j \in 1 .. x : m[j] = n[j]
  BY <1>1, <1>2, PrefixFacts
<1>4. \A k \in 1 .. y : k <= x =>
        (SubSeq(m, 1, k - 1) = SubSeq(n, 1, k - 1) <=> \A j \in 1 .. k - 1 : m[j] = n[j])
  <2> SUFFICES ASSUME NEW k \in 1 .. y, k <= x
               PROVE  SubSeq(m, 1, k - 1) = SubSeq(n, 1, k - 1) <=> \A j \in 1 .. k - 1 : m[j] = n[j]
    OBVIOUS
  <2>1. PICK i \in Nat : i = k - 1
    OBVIOUS
  <2>2. i <= Len(m) /\ i <= Len(n)
    BY <1>1, <1>2, <2>1
  <2> QED
    BY <2>1, <2>2, PartsEqual
<1>5. WrittenBefore(m, n) <=>
        \/ x < y /\ \A j \in 1 .. x : m[j] = n[j]
        \/ \E k \in 1 .. y : k <= x /\ m[k] < n[k] /\ \A j \in 1 .. k - 1 : m[j] = n[j]
  <2>1. WrittenBefore(m, n) <=>
          \/ IsAncestor(m, n)
          \/ \E k \in (1 .. x) \cap (1 .. y) :
               m[k] < n[k] /\ SubSeq(m, 1, k - 1) = SubSeq(n, 1, k - 1)
    BY <1>1, <1>2 DEF WrittenBefore
  <2>2. \A k : k \in (1 .. x) \cap (1 .. y) <=> k \in 1 .. y /\ k <= x
    BY <1>1, <1>2
  <2> QED
    BY <1>3, <1>4, <2>1, <2>2
<1>6. ASSUME x < y, \A j \in 1 .. x : m[j] = n[j]
      PROVE  \E k \in 1 .. y : Parting(m, n, k)
  <2>1. x + 1 \in 1 .. y /\ x + 1 - 1 = x
    BY <1>1, <1>2, <1>6
  <2>2. Parting(m, n, x + 1)
    <3>1. \A j \in 1 .. x + 1 - 1 : j <= x /\ m[j] = n[j]
      BY <1>1, <1>6, <2>1
    <3> QED
      BY <1>1, <3>1 DEF Parting
  <2> QED
    BY <2>1, <2>2
<1>7. ASSUME NEW k \in 1 .. y, k <= x, m[k] < n[k], \A j \in 1 .. k - 1 : m[j] = n[j]
      PROVE  Parting(m, n, k)
  BY <1>1, <1>2, <1>7 DEF Parting
<1>8. ASSUME NEW k \in 1 .. y, Parting(m, n, k)
      PROVE  \/ x < y /\ \A j \in 1 .. x : m[j] = n[j]
             \/ k <= x /\ m[k] < n[k] /\ \A j \in 1 .. k - 1 : m[j] = n[j]
  <2>1. CASE k = x + 1
    BY <1>1, <1>2, <1>8, <2>1 DEF Parting
  <2>2. CASE k # x + 1
    BY <1>1, <1>2, <1>8, <2>2 DEF Parting
  <2> QED
    BY <2>1, <2>2
<1> QED
  BY <1>2, <1>5, <1>6, <1>7, <1>8

\* No node is written before itself.
LEMMA BeforeIrreflexive ==
  ASSUME NEW m \in Seq(Nat)
  PROVE  ~ WrittenBefore(m, m)
<1>1. PICK x \in Nat : x = Len(m) /\ DOMAIN m = 1 .. x
  BY LenProperties
<1>2. \A k \in 1 .. x : m[k] \in Nat
  BY <1>1, ElementOfSeq
<1>3. \A k \in 1 .. x : ~ Parting(m, m, k)
  BY <1>1, <1>2 DEF Parting
<1> QED
  BY <1>1, <1>3, BeforeFacts

\* The order is transitive: the first of the two partings counts.
LEMMA BeforeTransitive ==
  ASSUME NEW m \in Seq(Nat), NEW n \in Seq(Nat), NEW p \in Seq(Nat),
         WrittenBefore(m, n), WrittenBefore(n, p)
  PROVE  WrittenBefore(m, p)
<1>1. PICK x \in Nat : x = Len(m) /\ \A k \in 1 .. x : m[k] \in Nat
  BY LenProperties, ElementOfSeq
<1>2. PICK y \in Nat : y = Len(n) /\ \A k \in 1 .. y : n[k] \in Nat
  BY LenProperties, ElementOfSeq
<1>3. PICK z \in Nat : z = Len(p) /\ \A k \in 1 .. z : p[k] \in Nat
  BY LenProperties, ElementOfSeq
<1>4. PICK k \in 1 .. y : Parting(m, n, k)
  BY <1>2, BeforeFacts
<1>5. PICK l \in 1 .. z : Parting(n, p, l)
  BY <1>3, BeforeFacts
<1>6. /\ \A j \in 1 .. k - 1 : j <= x /\ m[j] = n[j]
      /\ k = x + 1 \/ (k <= x /\ m[k] < n[k])
  BY <1>1, <1>4 DEF Parting
<1>7. /\ \A j \in 1 .. l - 1 : j <= y /\ n[j] = p[j]
      /\ l = y + 1 \/ (l <= y /\ n[l] < p[l])
  BY <1>2, <1>5 DEF Parting
<1>8. PICK i \in 1 .. z : i = IF k <= l THEN k ELSE l
  OBVIOUS
<1>9. \A j \in 1 .. i - 1 : j <= x /\ m[j] = p[j]
  BY <1>6, <1>7, <1>8
<1>10. i = x + 1 \/ (i <= x /\ m[i] < p[i])
  <2>1. CASE k < l
    <3>1. i = k /\ n[k] = p[k]
      BY <1>7, <1>8, <2>1
    <3> QED
      BY <1>6, <3>1
  <2>2. CASE k = l
    <3>1. l <= y /\ n[l] < p[l]
      BY <1>7, <2>2
    <3>2. i = k
      BY <1>8, <2>2
    <3>3. CASE k = x + 1
      <4>1. i = x + 1
        BY <3>2, <3>3
      <4> QED
        BY <4>1
    <3>4. CASE k <= x /\ m[k] < n[k]
      BY <1>1, <1>2, <1>3, <2>2, <3>1, <3>2, <3>4
    <3> QED
      BY <1>6, <3>3, <3>4
  <2>3. CASE l < k
    <3>1. i = l /\ l <= x /\ m[l] = n[l] /\ l <= y
      BY <1>6, <1>8, <2>3
    <3>2. n[l] < p[l]
      BY <1>7, <3>1
    <3> QED
      BY <3>1, <3>2
  <2> QED
    BY <2>1, <2>2, <2>3
<1>11. Parting(m, p, i)
  BY <1>1, <1>9, <1>10 DEF Parting
<1> QED
  BY <1>3, <1>11, BeforeFacts

\* A set of numbers that is not empty has a smallest one.
LEMMA SmallestNumber ==
  ASSUME NEW D \in SUBSET Nat, D # {}
  PROVE  \E k \in D : \A j \in D : k <= j
<1> DEFINE Less == OpToRel(<, Nat)
<1>1. \E x \in D : \A y \in D : ~ (<<y, x>> \in Less)
  <2> HIDE DEF Less
  <2> QED
    BY WFMin, NatLessThanWellFounded DEF Less
<1>2. PICK x \in D : \A y \in D : ~ (<<y, x>> \in Less)
  BY <1>1
<1>3. \A y \in D : ~ (y < x)
  BY <1>2 DEF OpToRel
<1> QED
  BY <1>3

\* Of two nodes, one is written before the other: at the first step where they
\* differ, or where one of them ends.
LEMMA BeforeTotal ==
  ASSUME NEW m \in Seq(Nat), NEW n \in Seq(Nat), m # n
  PROVE  WrittenBefore(m, n) \/ WrittenBefore(n, m)
<1>1. PICK x \in Nat : x = Len(m) /\ \A k \in 1 .. x : m[k] \in Nat
  BY LenProperties, ElementOfSeq
<1>2. PICK y \in Nat : y = Len(n) /\ \A k \in 1 .. y : n[k] \in Nat
  BY LenProperties, ElementOfSeq
<1> DEFINE D == {k \in 1 .. x : k <= y /\ m[k] # n[k]}
<1>3. CASE D = {}
  <2>1. \A k \in 1 .. x : k <= y => m[k] = n[k]
    BY <1>3
  <2>2. CASE x < y
    <3>1. IsAncestor(m, n)
      BY <1>1, <1>2, <2>1, <2>2, PrefixFacts
    <3> QED
      BY <3>1 DEF WrittenBefore
  <2>3. CASE y < x
    <3>1. \A k \in 1 .. y : n[k] = m[k]
      BY <2>1, <2>3
    <3>2. IsAncestor(n, m)
      BY <1>1, <1>2, <2>3, <3>1, PrefixFacts
    <3> QED
      BY <3>2 DEF WrittenBefore
  <2>4. CASE x = y
    <3>1. \A k \in 1 .. x : m[k] = n[k]
      BY <2>1, <2>4
    <3> QED
      BY <1>1, <1>2, <2>4, <3>1, SeqEqual
  <2> QED
    BY <2>2, <2>3, <2>4
<1>4. CASE D # {}
  <2>1. PICK k \in D : \A j \in D : k <= j
    <3>1. D \subseteq Nat
      OBVIOUS
    <3> HIDE DEF D
    <3> QED
      BY <1>4, <3>1, SmallestNumber
  <2>2. k \in 1 .. x /\ k \in 1 .. y /\ m[k] # n[k]
    OBVIOUS
  <2>3. \A j \in 1 .. k - 1 : j <= x /\ j <= y /\ m[j] = n[j]
    <3> SUFFICES ASSUME NEW j \in 1 .. k - 1 PROVE j <= x /\ j <= y /\ m[j] = n[j]
      OBVIOUS
    <3>1. j \in 1 .. x /\ j <= y /\ ~ (k <= j)
      BY <2>2
    <3> QED
      BY <2>1, <3>1
  <2>4. CASE m[k] < n[k]
    <3>1. Parting(m, n, k)
      BY <1>1, <2>2, <2>3, <2>4 DEF Parting
    <3> QED
      BY <1>2, <2>2, <3>1, BeforeFacts
  <2>5. CASE n[k] < m[k]
    <3>1. Parting(n, m, k)
      BY <1>2, <2>2, <2>3, <2>5 DEF Parting
    <3> QED
      BY <1>1, <2>2, <3>1, BeforeFacts
  <2> QED
    BY <1>1, <1>2, <2>2, <2>4, <2>5
<1> QED
  BY <1>3, <1>4

\* What is written between a node and one below it is below it, too.
LEMMA BetweenFacts ==
  ASSUME NEW m \in Seq(Nat), NEW k \in Seq(Nat), NEW p \in Seq(Nat), IsAncestor(m, p),
         WrittenBefore(m, k), WrittenBefore(k, p)
  PROVE  Len(m) < Len(k)
<1>1. PICK x \in Nat : x = Len(m) /\ \A j \in 1 .. x : m[j] \in Nat
  BY LenProperties, ElementOfSeq
<1>2. PICK y \in Nat : y = Len(k) /\ \A j \in 1 .. y : k[j] \in Nat
  BY LenProperties, ElementOfSeq
<1>3. PICK z \in Nat : z = Len(p) /\ \A j \in 1 .. z : p[j] \in Nat
  BY LenProperties, ElementOfSeq
<1>4. x < z /\ \A j \in 1 .. x : m[j] = p[j]
  BY <1>1, <1>3, PrefixFacts
<1>5. PICK i \in 1 .. y : Parting(m, k, i)
  BY <1>2, BeforeFacts
<1>6. PICK l \in 1 .. z : Parting(k, p, l)
  BY <1>3, BeforeFacts
<1>7. /\ \A j \in 1 .. i - 1 : j <= x /\ m[j] = k[j]
      /\ i = x + 1 \/ (i <= x /\ m[i] < k[i])
  BY <1>1, <1>5 DEF Parting
<1>8. /\ \A j \in 1 .. l - 1 : j <= y /\ k[j] = p[j]
      /\ l = y + 1 \/ (l <= y /\ k[l] < p[l])
  BY <1>2, <1>6 DEF Parting
<1>9. ~ (i <= x /\ m[i] < k[i])
  <2> SUFFICES ASSUME i <= x, m[i] < k[i] PROVE FALSE
    OBVIOUS
  <2>1. p[i] = m[i] /\ i \in 1 .. x
    BY <1>4
  <2>2. CASE l < i
    <3>1. l <= y /\ m[l] = k[l] /\ l \in 1 .. x
      BY <1>7, <2>1, <2>2
    <3>2. k[l] < p[l]
      BY <1>8, <3>1
    <3>3. m[l] = p[l]
      BY <1>4, <3>1
    <3> QED
      BY <1>1, <3>1, <3>2, <3>3
  <2>3. CASE l = i
    <3>1. k[i] < p[i]
      BY <1>8, <2>3
    <3> QED
      BY <1>1, <1>2, <2>1, <3>1
  <2>4. CASE i < l
    <3>1. k[i] = p[i]
      BY <1>8, <2>4
    <3> QED
      BY <1>1, <2>1, <3>1
  <2> QED
    BY <2>2, <2>3, <2>4
<1> QED
  BY <1>1, <1>2, <1>7, <1>9

\* A node written after another one but not below it has an ancestor, or is one
\* itself, that is written after the other one and is not deeper.
LEMMA ApartFacts ==
  ASSUME NEW m \in Seq(Nat), NEW n \in Seq(Nat), WrittenBefore(m, n), ~ IsAncestor(m, n)
  PROVE  \E p \in 1 .. Len(n) : p <= Len(m) /\ WrittenBefore(m, SubSeq(n, 1, p))
<1>1. PICK x \in Nat : x = Len(m)
  BY LenProperties
<1>2. PICK y \in Nat : y = Len(n)
  BY LenProperties
<1>3. PICK p \in 1 .. y : Parting(m, n, p)
  BY <1>2, BeforeFacts
<1>4. /\ \A j \in 1 .. p - 1 : j <= x /\ m[j] = n[j]
      /\ p = x + 1 \/ (p <= x /\ m[p] < n[p])
  BY <1>1, <1>3 DEF Parting
<1>5. p # x + 1
  <2> SUFFICES ASSUME p = x + 1 PROVE FALSE
    OBVIOUS
  <2>1. x < y /\ \A j \in 1 .. x : m[j] = n[j]
    BY <1>4
  <2> QED
    BY <1>1, <1>2, <2>1, PrefixFacts
<1>6. PICK a : a = SubSeq(n, 1, p)
  OBVIOUS
<1>7. a \in Seq(Nat) /\ Len(a) = p /\ \A j \in 1 .. p : a[j] = n[j]
  <2>1. p \in 0 .. Len(n)
    BY <1>2
  <2> QED
    BY <1>6, <2>1, PartFacts
<1>8. Parting(m, a, p)
  <2>1. \A j \in 1 .. p - 1 : j <= x /\ m[j] = a[j]
    BY <1>4, <1>7
  <2>2. p <= x /\ m[p] < a[p]
    BY <1>4, <1>5, <1>7
  <2> QED
    BY <1>1, <2>1, <2>2 DEF Parting
<1>9. p \in 1 .. Len(a)
  BY <1>7
<1>10. WrittenBefore(m, a)
  BY <1>7, <1>8, <1>9, BeforeFacts
<1> QED
  BY <1>1, <1>2, <1>4, <1>5, <1>6, <1>10

\* What a path begins with is its ancestor, if it is not the path itself.
LEMMA PartIsAncestor ==
  ASSUME NEW n \in Seq(Nat), NEW p \in 1 .. Len(n), NEW a, a = SubSeq(n, 1, p)
  PROVE  Len(a) = p /\ (a = n \/ IsAncestor(a, n))
<1>1. PICK y \in Nat : y = Len(n)
  BY LenProperties
<1>2. a \in Seq(Nat) /\ Len(a) = p /\ \A j \in 1 .. p : a[j] = n[j]
  <2>1. p \in 0 .. Len(n)
    BY <1>1
  <2> QED
    BY <2>1, PartFacts
<1>3. CASE p = y
  BY <1>1, <1>2, <1>3, SeqEqual
<1>4. CASE p # y
  <2>1. p < y
    BY <1>1, <1>4
  <2> QED
    BY <1>1, <1>2, <2>1, PrefixFacts
<1> QED
  BY <1>3, <1>4

\* The nodes are paths, and what a path begins with is a node.
TreeIsPaths ==
  /\ tree \subseteq Seq(Nat) /\ <<>> \notin tree /\ IsFiniteSet(tree)
  /\ \A n \in tree : \A k \in 1 .. Len(n) : SubSeq(n, 1, k) \in tree

\* The places of the nodes are the rows, in the order in which they are written.
LEMMA PlaceFacts ==
  ASSUME tree \subseteq Seq(Nat), IsFiniteSet(tree)
  PROVE  /\ Cardinality(tree) \in Nat
         /\ \A n \in tree : Place(n) \in 1 .. Cardinality(tree)
         /\ \A m, n \in tree : WrittenBefore(m, n) <=> Place(m) < Place(n)
         /\ \A m, n \in tree : Place(m) = Place(n) => m = n
         /\ \A r \in 1 .. Cardinality(tree) : \E n \in tree : Place(n) = r
<1> DEFINE Prior(n) == {m \in tree : WrittenBefore(m, n)}
<1>1. PICK size \in Nat : size = Cardinality(tree)
  BY FS_CardinalityType
<1>2. ASSUME NEW n \in tree
      PROVE  /\ IsFiniteSet(Prior(n)) /\ Cardinality(Prior(n)) \in Nat
             /\ Cardinality(Prior(n)) < size
  <2>1. Prior(n) \in SUBSET tree
    OBVIOUS
  <2>2. n \notin Prior(n)
    BY BeforeIrreflexive
  <2> HIDE DEF Prior
  <2>3. IsFiniteSet(Prior(n)) /\ Cardinality(Prior(n)) <= size
    BY <1>1, <2>1, FS_Subset
  <2>4. Cardinality(Prior(n)) # size
    BY <1>1, <2>1, <2>2, FS_Subset
  <2>5. Cardinality(Prior(n)) \in Nat
    BY <2>3, FS_CardinalityType
  <2> QED
    BY <1>1, <2>3, <2>4, <2>5
<1>3. ASSUME NEW m \in tree, NEW n \in tree, WrittenBefore(m, n)
      PROVE  Cardinality(Prior(m)) < Cardinality(Prior(n))
  <2>1. Prior(m) \in SUBSET Prior(n)
    BY <1>3, BeforeTransitive
  <2>2. m \in Prior(n) /\ m \notin Prior(m)
    BY <1>3, BeforeIrreflexive
  <2>3. IsFiniteSet(Prior(n)) /\ Cardinality(Prior(n)) \in Nat /\ Cardinality(Prior(m)) \in Nat
    BY <1>2
  <2> HIDE DEF Prior
  <2>4. /\ Cardinality(Prior(m)) <= Cardinality(Prior(n))
        /\ Cardinality(Prior(m)) # Cardinality(Prior(n))
    BY <2>1, <2>2, <2>3, FS_Subset
  <2> QED
    BY <2>3, <2>4
<1>4. \A n \in tree : Place(n) = Cardinality(Prior(n)) + 1
  BY DEF Place
<1> HIDE DEF Prior
<1>5. \A n \in tree : Place(n) \in 1 .. size
  BY <1>1, <1>2, <1>4
<1>6. \A m, n \in tree : WrittenBefore(m, n) => Place(m) < Place(n)
  BY <1>2, <1>3, <1>4
<1>7. \A m, n \in tree : m # n => WrittenBefore(m, n) \/ WrittenBefore(n, m)
  BY BeforeTotal
<1>8. \A n \in tree : Place(n) \in Int
  BY <1>5
<1>9. \A m, n \in tree : Place(m) = Place(n) => m = n
  BY <1>6, <1>7, <1>8
<1>10. \A m, n \in tree : Place(m) < Place(n) => WrittenBefore(m, n)
  BY <1>6, <1>7, <1>8
<1>11. \A r \in 1 .. size : \E n \in tree : Place(n) = r
  <2>1. PICK f : f = [n \in tree |-> Place(n)]
    OBVIOUS
  <2>2. f \in [tree -> 1 .. size]
    BY <1>5, <2>1
  <2>3. f \in Injection(tree, 1 .. size)
    BY <1>9, <2>1, <2>2 DEF Injection, IsInjective
  <2>4. IsFiniteSet(1 .. size) /\ Cardinality(1 .. size) = size
    BY <1>1, FS_Interval
  <2>5. f \in Surjection(tree, 1 .. size)
    BY <1>1, <2>3, <2>4, FS_Injection
  <2> QED
    BY <2>1, <2>5 DEF Surjection
<1> QED
  BY <1>1, <1>5, <1>6, <1>9, <1>10, <1>11

\* What render() leaves of the tree: the rows are its nodes, in their order.
RowsAreWritten ==
  /\ rows \in Seq(tree) /\ Row = DOMAIN rows
  /\ \A r \in Row : depth[r] = Len(rows[r]) - 1
  /\ \A r, s \in Row : WrittenBefore(rows[r], rows[s]) <=> r < s
  /\ \A n \in tree : \E r \in Row : rows[r] = n

\* The rows that are deeper and follow without a gap are the descendants.
LEMMA BelowFacts ==
  TreeIsPaths /\ RowsAreWritten => BelowIsDescendants
<1> SUFFICES ASSUME TreeIsPaths, RowsAreWritten PROVE BelowIsDescendants
  OBVIOUS
<1>1. PICK len \in Nat : Row = 1 .. len
  BY LenProperties DEF RowsAreWritten
<1>2. ASSUME NEW r \in Row
      PROVE  /\ rows[r] \in tree /\ rows[r] \in Seq(Nat)
             /\ Len(rows[r]) \in Nat \ {0} /\ depth[r] = Len(rows[r]) - 1
  <2>1. rows[r] \in tree
    BY ElementOfSeq, LenProperties DEF RowsAreWritten
  <2>2. rows[r] \in Seq(Nat) /\ rows[r] # <<>>
    BY <2>1 DEF TreeIsPaths
  <2>3. Len(rows[r]) \in Nat /\ Len(rows[r]) # 0
    BY <2>2, LenProperties, EmptySeq
  <2> QED
    BY <2>1, <2>2, <2>3 DEF RowsAreWritten
<1>3. ASSUME NEW r \in Row, NEW c \in Row, IsAncestor(rows[r], rows[c])
      PROVE  c \in Below(r)
  <2>1. WrittenBefore(rows[r], rows[c])
    BY <1>3 DEF WrittenBefore
  <2>2. r < c
    BY <2>1 DEF RowsAreWritten
  <2>3. ASSUME NEW k \in Row, r < k, k <= c
        PROVE  depth[r] < depth[k]
    <3>1. CASE k = c
      <4>1. Len(rows[r]) < Len(rows[c])
        BY <1>2, <1>3, PrefixFacts
      <4> QED
        BY <1>2, <3>1, <4>1
    <3>2. CASE k # c
      <4>1. k < c
        BY <1>1, <2>3, <3>2
      <4>2. WrittenBefore(rows[r], rows[k]) /\ WrittenBefore(rows[k], rows[c])
        BY <2>3, <4>1 DEF RowsAreWritten
      <4>3. Len(rows[r]) < Len(rows[k])
        BY <1>2, <1>3, <4>2, BetweenFacts
      <4> QED
        BY <1>2, <4>3
    <3> QED
      BY <3>1, <3>2
  <2> QED
    BY <2>2, <2>3 DEF Below
<1>4. ASSUME NEW r \in Row, NEW c \in Below(r)
      PROVE  c \in Row /\ IsAncestor(rows[r], rows[c])
  <2>1. c \in Row /\ r < c /\ \A k \in Row : r < k /\ k <= c => depth[r] < depth[k]
    BY DEF Below
  <2>2. WrittenBefore(rows[r], rows[c])
    BY <2>1 DEF RowsAreWritten
  <2>3. SUFFICES ASSUME ~ IsAncestor(rows[r], rows[c]) PROVE FALSE
    BY <2>1
  <2>4. PICK p \in 1 .. Len(rows[c]) :
          /\ p <= Len(rows[r])
          /\ WrittenBefore(rows[r], SubSeq(rows[c], 1, p))
    BY <1>2, <2>1, <2>2, <2>3, ApartFacts
  <2>5. PICK a \in tree : a = SubSeq(rows[c], 1, p)
    BY <1>2, <2>1 DEF TreeIsPaths
  <2>6. PICK k \in Row : rows[k] = a
    BY DEF RowsAreWritten
  <2>7. r < k
    <3>1. WrittenBefore(rows[r], rows[k])
      BY <2>4, <2>5, <2>6, Zenon
    <3> QED
      BY <3>1 DEF RowsAreWritten
  <2>8. Len(a) = p /\ (a = rows[c] \/ IsAncestor(a, rows[c]))
    BY <1>2, <2>1, <2>5, PartIsAncestor
  <2>9. k <= c
    <3>1. CASE a = rows[c]
      <4>1. ~ WrittenBefore(rows[c], rows[k])
        BY <1>2, <2>1, <2>6, <3>1, BeforeIrreflexive
      <4> QED
        BY <1>1, <2>1, <4>1 DEF RowsAreWritten
    <3>2. CASE IsAncestor(a, rows[c])
      <4>1. WrittenBefore(rows[k], rows[c])
        BY <2>6, <3>2 DEF WrittenBefore
      <4> QED
        BY <1>1, <2>1, <4>1 DEF RowsAreWritten
    <3> QED
      BY <2>8, <3>1, <3>2
  <2>10. depth[r] < depth[k]
    BY <2>1, <2>7, <2>9
  <2> QED
    BY <1>2, <2>4, <2>6, <2>8, <2>10
<1> QED
  BY <1>3, <1>4 DEF BelowIsDescendants

-----------------------------------------------------------------------------
(* The tree table as specified                                             *)

\* The nodes are paths; the rows, if there are any, are what render() has
\* written; and a row is displayed when it is below no closed one.
TreeInv ==
  /\ TreeIsPaths
  /\ TypeOK
  /\ (rows = <<>> /\ Row = {}) \/ RowsAreWritten
  /\ ShownIffUncovered

\* What is proved of the rows is said of the tree.
LEMMA TreeInvImplies == TreeInv => RowsShowTree
<1> SUFFICES ASSUME TreeInv PROVE RowsShowTree
  OBVIOUS
<1>1. CASE rows = <<>> /\ Row = {}
  BY <1>1 DEF RowsShowTree, BelowIsDescendants
<1>2. CASE RowsAreWritten
  <2>1. BelowIsDescendants
    BY <1>2, BelowFacts DEF TreeInv
  <2>2. \A r, c \in Row : IsAncestor(rows[r], rows[c]) <=> c \in Below(r)
    BY <2>1 DEF BelowIsDescendants
  <2> QED
    BY <2>1, <2>2 DEF TreeInv, ShownIffUncovered, RowsShowTree
<1> QED
  BY <1>1, <1>2 DEF TreeInv

\* A new node whose parent is a node, or that is a root, leaves the nodes paths.
LEMMA NewNode ==
  ASSUME TreeIsPaths, NEW node \in tree \cup {<<>>}, NEW x \in Nat, NEW new, new = Append(node, x),
         tree' = tree \cup {new}
  PROVE  TreeIsPaths'
<1>1. node \in Seq(Nat)
  <2>1. <<>> \in Seq(Nat)
    BY EmptySeq
  <2>2. tree \subseteq Seq(Nat)
    BY DEF TreeIsPaths
  <2> QED
    BY <2>1, <2>2
<1>2. PICK len \in Nat : len = Len(node) /\ \A j \in 1 .. len : node[j] \in Nat
  BY <1>1, LenProperties, ElementOfSeq
<1>3. /\ new \in Seq(Nat) /\ new # <<>> /\ Len(new) = len + 1
      /\ \A j \in 1 .. len : new[j] = node[j]
  BY <1>1, <1>2, AppendProperties
<1>4. \A k \in 1 .. len : SubSeq(new, 1, k) = SubSeq(node, 1, k)
  <2> SUFFICES ASSUME NEW k \in 1 .. len PROVE SubSeq(new, 1, k) = SubSeq(node, 1, k)
    OBVIOUS
  <2>1. k \in Nat /\ k <= Len(new) /\ k <= Len(node) /\ \A j \in 1 .. k : new[j] = node[j]
    BY <1>2, <1>3
  <2> QED
    BY <1>1, <1>3, <2>1, PartsEqual
<1>5. SubSeq(new, 1, len + 1) = new
  <2>1. PICK all : all = SubSeq(new, 1, len + 1)
    OBVIOUS
  <2>2. len + 1 \in 1 .. Len(new)
    BY <1>3
  <2>3. len + 1 \in 0 .. Len(new)
    BY <1>3
  <2>4. all \in Seq(Nat) /\ Len(all) = len + 1 /\ \A j \in 1 .. len + 1 : all[j] = new[j]
    BY <1>3, <2>1, <2>3, PartFacts
  <2> QED
    BY <1>3, <2>1, <2>4, SeqEqual
<1>6. \A k \in 1 .. len : SubSeq(node, 1, k) \in tree
  <2>1. CASE node \in tree
    BY <1>2, <2>1 DEF TreeIsPaths
  <2>2. CASE node = <<>>
    BY <1>2, <2>2, EmptySeq
  <2> QED
    BY <2>1, <2>2
<1>7. \A k \in 1 .. Len(new) : SubSeq(new, 1, k) \in tree \cup {new}
  <2>1. \A k \in 1 .. len + 1 : k \in 1 .. len \/ k = len + 1
    BY <1>2
  <2> QED
    BY <1>3, <1>4, <1>5, <1>6, <2>1
<1>8. IsFiniteSet(tree \cup {new})
  BY FS_AddElement DEF TreeIsPaths
<1>9. PICK nodes : nodes = tree'
  OBVIOUS
<1>10. /\ nodes \subseteq Seq(Nat) /\ <<>> \notin nodes /\ IsFiniteSet(nodes)
       /\ \A n \in nodes : \A k \in 1 .. Len(n) : SubSeq(n, 1, k) \in nodes
  BY <1>3, <1>7, <1>8, <1>9 DEF TreeIsPaths
<1> QED
  BY <1>9, <1>10 DEF TreeIsPaths

\* The number of children of a node.
LEMMA ChildrenCount ==
  ASSUME TreeIsPaths, NEW node
  PROVE  Cardinality(Children(node)) \in Nat
<1>1. Children(node) \in SUBSET tree
  BY DEF Children
<1>2. IsFiniteSet(Children(node))
  BY <1>1, FS_Subset DEF TreeIsPaths
<1> QED
  BY <1>2, FS_CardinalityType

\* A node is added while there are no rows.
LEMMA AddStep == ASSUME TreeInv, AddNode \/ AddChild PROVE TreeInv'
<1>1. TreeIsPaths'
  <2>1. CASE AddNode
    <3>1. PICK x \in Nat : x = Cardinality(Children(<<>>)) + 1
      BY ChildrenCount DEF TreeInv
    <3>2. tree' = tree \cup {<<x>>}
      BY <2>1, <3>1 DEF AddNode
    <3>3. <<x>> = Append(<<>>, x)
      OBVIOUS
    <3> QED
      BY <3>2, <3>3, NewNode DEF TreeInv
  <2>2. CASE AddChild
    <3>1. PICK node \in tree : tree' = tree \cup {Append(node, Cardinality(Children(node)) + 1)}
      BY <2>2 DEF AddChild
    <3>2. PICK x \in Nat : x = Cardinality(Children(node)) + 1
      BY ChildrenCount DEF TreeInv
    <3>3. PICK new : new = Append(node, x)
      OBVIOUS
    <3>4. tree' = tree \cup {new}
      BY <3>1, <3>2, <3>3
    <3> QED
      BY <3>3, <3>4, NewNode DEF TreeInv
  <2> QED
    BY <2>1, <2>2
<1>2. rows = <<>> /\ rows' = rows /\ depth' = depth /\ closed' = closed /\ shown' = shown
  BY DEF AddNode, AddChild, rowVars
<1>3. Row = {}
  <2>1. CASE RowsAreWritten
    BY <1>2, <2>1, EmptySeq DEF RowsAreWritten
  <2> QED
    BY <2>1 DEF TreeInv
<1>4. Row' = {} /\ rows' = <<>>
  BY <1>2, <1>3 DEF Row
<1>5. TypeOK'
  BY <1>2 DEF TreeInv, TypeOK, Row
<1>6. ShownIffUncovered'
  BY <1>4 DEF ShownIffUncovered
<1> QED
  BY <1>1, <1>4, <1>5, <1>6 DEF TreeInv

\* render() writes the nodes in their order, roots displayed, all collapsed.
LEMMA TreeRenderStep == ASSUME TreeInv, Render PROVE TreeInv'
<1>1. /\ rows' = [r \in 1 .. Cardinality(tree) |-> CHOOSE n \in tree : Place(n) = r]
      /\ depth' = [r \in DOMAIN rows' |-> Len(rows'[r]) - 1]
      /\ closed' = [r \in DOMAIN rows' |-> TRUE]
      /\ shown' = [r \in DOMAIN rows' |-> depth'[r] = 0]
      /\ tree' = tree
  BY DEF Render
<1>2. tree \subseteq Seq(Nat) /\ <<>> \notin tree /\ IsFiniteSet(tree)
  BY DEF TreeInv, TreeIsPaths
<1>3. PICK size \in Nat :
        /\ size = Cardinality(tree)
        /\ \A n \in tree : Place(n) \in 1 .. size
        /\ \A m, n \in tree : WrittenBefore(m, n) <=> Place(m) < Place(n)
        /\ \A m, n \in tree : Place(m) = Place(n) => m = n
        /\ \A r \in 1 .. size : \E n \in tree : Place(n) = r
  BY <1>2, PlaceFacts
<1>4. PICK rs : rs = rows'
  OBVIOUS
<1>5. rs = [r \in 1 .. size |-> CHOOSE n \in tree : Place(n) = r]
  BY <1>1, <1>3, <1>4
<1>6. \A r \in 1 .. size : rs[r] \in tree /\ Place(rs[r]) = r
  BY <1>3, <1>5
<1>7. \A n \in tree : \E r \in 1 .. size : rs[r] = n
  BY <1>3, <1>6
<1>8. \A r, s \in 1 .. size : WrittenBefore(rs[r], rs[s]) <=> r < s
  BY <1>3, <1>6
<1>9. rs \in [1 .. size -> tree] /\ DOMAIN rs = 1 .. size
  BY <1>5, <1>6
<1>10. rs \in Seq(tree)
  BY <1>9
<1>11. \A r \in 1 .. size : Len(rs[r]) \in Nat \ {0}
  BY <1>2, <1>6, LenProperties, EmptySeq
<1>12. PICK ds : ds = depth'
  OBVIOUS
<1>13. ds = [r \in 1 .. size |-> Len(rs[r]) - 1]
  BY <1>1, <1>4, <1>9, <1>12
<1>14. ds \in [1 .. size -> Nat] /\ DOMAIN ds = 1 .. size
  BY <1>11, <1>13
<1>15. ds \in Seq(Nat)
  BY <1>14
<1>16. Row' = 1 .. size
  BY <1>12, <1>14 DEF Row
<1>17. TypeOK'
  <2>1. closed' \in [1 .. size -> BOOLEAN] /\ shown' \in [1 .. size -> BOOLEAN]
    BY <1>1, <1>4, <1>9
  <2> QED
    BY <1>12, <1>15, <1>16, <2>1 DEF TypeOK
<1>18. RowsAreWritten'
  <2>1. rows' \in Seq(tree') /\ Row' = DOMAIN rows'
    BY <1>1, <1>4, <1>9, <1>10, <1>16
  <2>2. \A r \in Row' : depth'[r] = Len(rows'[r]) - 1
    BY <1>4, <1>12, <1>13, <1>16
  <2>3. \A r, s \in Row' : WrittenBefore(rows'[r], rows'[s]) <=> r < s
    BY <1>4, <1>8, <1>16
  <2>4. \A n \in tree' : \E r \in Row' : rows'[r] = n
    BY <1>1, <1>4, <1>7, <1>16
  <2>5. \A m, n : WrittenBefore(m, n)' <=> WrittenBefore(m, n)
    BY DEF WrittenBefore, IsAncestor
  <2> QED
    BY <2>1, <2>2, <2>3, <2>4 DEF RowsAreWritten, WrittenBefore, IsAncestor
<1>19. TreeIsPaths'
  BY <1>1 DEF TreeInv, TreeIsPaths
<1>20. BelowIsDescendants'
  BY <1>18, <1>19, BelowFacts, PTL
<1>21. ShownIffUncovered'
  <2> SUFFICES ASSUME NEW c \in Row'
               PROVE  shown'[c] <=> \A r \in Row' : c \in Below(r)' => ~closed'[r]
    BY DEF ShownIffUncovered
  <2>1. \A r \in Row' : closed'[r]
    BY <1>1, <1>4, <1>9, <1>16
  <2>2. shown'[c] <=> ds[c] = 0
    BY <1>1, <1>4, <1>9, <1>12, <1>16
  <2>3. ASSUME ds[c] = 0, NEW r \in Row' PROVE c \notin Below(r)'
    <3>1. c \in Below(r)' => ds[r] < ds[c]
      BY <1>12, <1>16 DEF Below
    <3> QED
      BY <1>14, <1>16, <2>3, <3>1
  <2>4. ASSUME ds[c] # 0 PROVE \E r \in Row' : c \in Below(r)'
    <3>1. PICK n \in tree : n = rs[c]
      BY <1>6, <1>16
    <3>2. n \in Seq(Nat) /\ 1 \in 1 .. Len(n) /\ Len(n) # 1
      BY <1>2, <1>11, <1>13, <1>16, <2>4, <3>1
    <3>3. PICK a \in tree : a = SubSeq(n, 1, 1)
      BY <3>1, <3>2 DEF TreeInv, TreeIsPaths
    <3>4. Len(a) = 1 /\ (a = n \/ IsAncestor(a, n))
      BY <3>2, <3>3, PartIsAncestor
    <3>5. IsAncestor(a, n)
      BY <3>2, <3>4
    <3>6. PICK r \in 1 .. size : rs[r] = a
      BY <1>7
    <3>7. IsAncestor(rows'[r], rows'[c])
      BY <1>4, <3>1, <3>5, <3>6
    <3>8. c \in Below(r)'
      BY <1>16, <1>20, <3>7 DEF BelowIsDescendants, IsAncestor
    <3> QED
      BY <1>16, <3>8
  <2> QED
    BY <2>1, <2>2, <2>3, <2>4
<1> QED
  BY <1>17, <1>18, <1>19, <1>21 DEF TreeInv

\* Rows that stay where they are keep showing the same tree.
LEMMA RowsStay ==
  ASSUME tree' = tree, rows' = rows, depth' = depth
  PROVE  /\ Row' = Row
         /\ TreeIsPaths => TreeIsPaths'
         /\ RowsAreWritten => RowsAreWritten'
<1>1. Row' = Row
  BY DEF Row
<1>2. ASSUME TreeIsPaths PROVE TreeIsPaths'
  BY <1>2 DEF TreeIsPaths
<1>3. ASSUME RowsAreWritten PROVE RowsAreWritten'
  <2>1. rows' \in Seq(tree') /\ Row' = DOMAIN rows'
    BY <1>1, <1>3 DEF RowsAreWritten
  <2>2. \A r \in Row' : depth'[r] = Len(rows'[r]) - 1
    BY <1>1, <1>3 DEF RowsAreWritten
  <2>3. \A r, s \in Row' : WrittenBefore(rows'[r], rows'[s]) <=> r < s
    BY <1>1, <1>3 DEF RowsAreWritten
  <2>4. \A n \in tree' : \E r \in Row' : rows'[r] = n
    BY <1>1, <1>3 DEF RowsAreWritten
  <2> QED
    BY <2>1, <2>2, <2>3, <2>4 DEF RowsAreWritten, WrittenBefore, IsAncestor
<1> QED
  BY <1>1, <1>2, <1>3

\* A click leaves the rows where they are.
LEMMA TreeToggleStep == ASSUME TreeInv, NEW r \in Row, Toggle(r) PROVE TreeInv'
<1>1. tree' = tree /\ rows' = rows /\ depth' = depth
  BY DEF Toggle
<1>2. Row' = Row
  BY <1>1, RowsStay
<1>3. ShownIffUncovered'
  BY ToggleKeepsShown DEF TreeInv
<1>4. TypeOK'
  <2>1. closed' \in [Row -> BOOLEAN] /\ shown' \in [Row -> BOOLEAN]
    BY DEF Toggle, Close, Open, TreeInv, TypeOK
  <2> QED
    BY <1>1, <1>2, <2>1 DEF TreeInv, TypeOK
<1>5. TreeIsPaths' /\ (RowsAreWritten => RowsAreWritten')
  BY <1>1, RowsStay DEF TreeInv
<1>6. rows = <<>> /\ Row = {} => rows' = <<>> /\ Row' = {}
  BY <1>1, <1>2
<1> QED
  BY <1>3, <1>4, <1>5, <1>6 DEF TreeInv

\* The tree table's rows show its tree: for every tree, whatever was opened and
\* closed and rendered again, a node is displayed exactly when all its
\* ancestors are open, and a click works on the rows of the nodes below.
THEOREM TreeIsShown == Spec => []RowsShowTree
<1>1. Init => TreeInv
  <2> SUFFICES ASSUME Init PROVE TreeInv
    OBVIOUS
  <2>1. tree = {} /\ rows = <<>> /\ depth = <<>> /\ closed = <<>> /\ shown = <<>>
    BY DEF Init
  <2>2. Row = {}
    BY <2>1 DEF Row
  <2>3. TreeIsPaths
    BY <2>1, FS_EmptySet DEF TreeIsPaths
  <2>4. TypeOK
    BY <2>1, <2>2 DEF TypeOK
  <2> QED
    BY <2>1, <2>2, <2>3, <2>4 DEF TreeInv, ShownIffUncovered
<1>2. TreeInv /\ [Next]_vars => TreeInv'
  <2> SUFFICES ASSUME TreeInv, [Next]_vars PROVE TreeInv'
    OBVIOUS
  <2>1. CASE UNCHANGED vars
    <3>1. tree' = tree /\ rows' = rows /\ depth' = depth /\ closed' = closed /\ shown' = shown
      BY <2>1 DEF vars, rowVars
    <3>2. Row' = Row /\ TreeIsPaths' /\ (RowsAreWritten => RowsAreWritten')
      BY <3>1, RowsStay DEF TreeInv
    <3>3. TypeOK'
      BY <3>1, <3>2 DEF TreeInv, TypeOK
    <3>4. ShownIffUncovered'
      BY <3>1, <3>2 DEF TreeInv, ShownIffUncovered, Below
    <3>5. rows = <<>> /\ Row = {} => rows' = <<>> /\ Row' = {}
      BY <3>1, <3>2
    <3> QED
      BY <3>2, <3>3, <3>4, <3>5 DEF TreeInv
  <2>2. CASE Next
    BY <2>2, AddStep, TreeRenderStep, TreeToggleStep DEF Next
  <2> QED
    BY <2>1, <2>2
<1> QED
  BY <1>1, <1>2, TreeInvImplies, PTL DEF Spec

=============================================================================
