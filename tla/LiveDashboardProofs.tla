------------------------ MODULE LiveDashboardProofs ------------------------
(***************************************************************************)
(* Proofs about LiveDashboard for any findings, requests and changes of    *)
(* the cluster: the types, that the report is always what one collection   *)
(* read, and that a batch is applied in its order and reported in full.    *)
(***************************************************************************)
EXTENDS LiveDashboard, FiniteSetTheorems, SequenceTheorems, TLAPS

\* A batch lists each of the given items exactly once.
LEMMA BatchIsAListing ==
    ASSUME NEW fs \in SUBSET Findings, NEW s \in OrderForBatch(fs)
    PROVE  /\ s \in Seq(Findings) /\ Len(s) = Cardinality(fs) /\ ToSet(s) = fs
           /\ \A i, j \in DOMAIN s : i < j => orderOf(Kind[s[i]]) <= orderOf(Kind[s[j]])
<1> DEFINE D == 1..Cardinality(fs)
<1>1. IsFiniteSet(fs) /\ Cardinality(fs) \in Nat
  BY FS_Subset, FS_CardinalityType, DashboardAssumption
<1>2. s \in [D -> fs] /\ \A i, j \in D : i # j => s[i] # s[j]
  BY DEF OrderForBatch, SetToSeqs
<1>3. s \in Seq(Findings) /\ Len(s) = Cardinality(fs)
  <2>1. s \in [D -> Findings]
    BY <1>2
  <2> QED BY <1>1, <2>1
<1>4. s \in Surjection(D, fs)
  <2>1. IsFiniteSet(D) /\ Cardinality(D) = Cardinality(fs)
    BY <1>1, FS_Interval
  <2>2. s \in Injection(D, fs)
    BY <1>2 DEF Injection, IsInjective
  <2> QED BY <1>1, <2>1, <2>2, FS_Injection
<1>5. ToSet(s) = fs
  BY <1>4 DEF ToSet, Surjection
<1> QED BY <1>3, <1>5 DEF OrderForBatch

\* The first element moves from one list to the end of the other: together they
\* still list the same.
LEMMA MoveHead ==
    ASSUME NEW S, NEW t \in Seq(S), NEW s \in Seq(S), s # <<>>
    PROVE  Append(t, Head(s)) \o Tail(s) = t \o s
<1>1. Head(s) \in S /\ Tail(s) \in Seq(S) /\ Append(t, Head(s)) = t \o <<Head(s)>>
  BY HeadTailProperties, AppendIsConcat
<1>2. <<Head(s)>> \o Tail(s) = s
  BY <1>1, HeadTailProperties
<1>3. <<Head(s)>> \in Seq(S)
  BY <1>1
<1> QED BY <1>1, <1>2, <1>3, ConcatAssociative

\* A request about to apply one item has it.
Ready == \A r \in Requests : pc[r] = "one" => items[r] # <<>>

\* Where a request is, and that it has what it is about to apply, stays typed when it
\* moves on.
LEMMA GotoTyped ==
    ASSUME TypeOK, NEW r \in Requests, NEW to \in {"idle", "done"} \cup Active,
           Goto(r, to), to = "one" => items'[r] # <<>>,
           \A u \in Requests \ {r} : items'[u] = items[u]
    PROVE  /\ pc' \in [Requests -> {"idle", "done"} \cup Active]
           /\ Ready'
<1>1. pc \in [Requests -> {"idle", "done"} \cup Active] /\ Ready
  BY DEF TypeOK, Ready
<1> QED BY <1>1 DEF Goto, Active, Ready

\* The cluster's history stays typed.
LEMMA ClusterTyped ==
    ASSUME TypeOK, NEW state \in SUBSET Findings, ClusterBecomes(state)
    PROVE  /\ cluster' \in SUBSET Findings
           /\ past' \in Seq(SUBSET Findings)
<1>1. past \in Seq(SUBSET Findings)
  BY DEF TypeOK
<1>2. Append(past, state) \in Seq(SUBSET Findings)
  BY <1>1, AppendProperties
<1> QED BY <1>1, <1>2 DEF ClusterBecomes

\* One more list of a collection, read or not, leaves it typed.
LEMMA ListTyped ==
    ASSUME TypeOK, NEW c \in Collections, ~Complete(c)
    PROVE  /\ WithNext(c) \in Collections /\ WithoutNext(c) \in Collections
           /\ NothingRead \in Collections
<1>1. c.read \in 0..NLists /\ c.found \in SUBSET Findings /\ NLists \in Nat
  BY DashboardAssumption DEF Collections
<1>2. c.read + 1 \in 0..NLists /\ 0 \in 0..NLists
  BY <1>1 DEF Complete
<1>3. c.found \cup OfList(cluster, c.read + 1) \in SUBSET Findings
  BY <1>1 DEF OfList, TypeOK
<1>4. NothingRead \in Collections
  BY <1>2 DEF NothingRead, Collections
<1>5. WithNext(c) \in Collections
  BY <1>2, <1>3 DEF WithNext, Collections
<1>6. [c EXCEPT !.read = @ + 1] \in Collections
  BY <1>2 DEF Collections
<1> QED BY <1>4, <1>5, <1>6 DEF WithoutNext

\* An offer to a channel of capacity one leaves it typed.
LEMMA OfferTyped ==
    ASSUME NEW S, NEW x \in S, NEW ch \in Seq(S), Len(ch) <= 1,
           NEW new, new = IF ch = <<>> THEN <<x>> ELSE ch
    PROVE  new \in Seq(S) /\ Len(new) <= 1
<1>1. <<x>> \in Seq(S) /\ Len(<<x>>) = 1
  OBVIOUS
<1>2. CASE ch = <<>>
  BY <1>1, <1>2
<1>3. CASE ch # <<>>
  BY <1>3
<1> QED BY <1>2, <1>3

\* So does taking its report.
LEMMA TakeTyped ==
    ASSUME NEW S, NEW ch \in Seq(S), Len(ch) <= 1, ch # <<>>
    PROVE  Head(ch) \in S /\ Tail(ch) \in Seq(S) /\ Len(Tail(ch)) <= 1
<1>1. Head(ch) \in S /\ Tail(ch) \in Seq(S) /\ Len(Tail(ch)) = Len(ch) - 1
  BY HeadTailProperties
<1> QED BY <1>1, LenProperties

\* The steps of the refresher, its consumers and the cluster keep the types.
LEMMA TypeOthers ==
    ASSUME TypeOK, Refresher \/ Merger \/ Consumer \/ ClusterChanges
    PROVE  TypeOK'
<1>0. NothingRead \in Collections /\ loop \in Collections /\ loop.found \in SUBSET Findings
  BY DashboardAssumption DEF TypeOK, Collections, NothingRead
<1>1. CASE LoopList \/ LoopListFails
  <2>1. loop' \in Collections
    BY <1>0, <1>1, ListTyped DEF LoopList, LoopListFails
  <2> QED BY <1>1, <2>1 DEF LoopList, LoopListFails, hop, requests, TypeOK
<1>2. CASE TickerStore
  BY <1>0, <1>2 DEF TickerStore, Shown, hop, requests, TypeOK
<1>3. CASE LoopPush
  <2>1. /\ loop.found \in SUBSET Findings
        /\ watchCh \in Seq(SUBSET Findings) /\ Len(watchCh) <= 1
    BY <1>0, <1>3 DEF LoopPush, TypeOK
  <2>2. watchCh' \in Seq(SUBSET Findings) /\ Len(watchCh') <= 1
    BY <1>3, <2>1, OfferTyped DEF LoopPush
  <2> QED BY <1>0, <1>3, <2>2 DEF LoopPush, hop, requests, TypeOK
<1>4. CASE PumpReceive \/ MergeReceive
  <2>1. watchCh # <<>> /\ watchCh \in Seq(SUBSET Findings) /\ Len(watchCh) <= 1
    BY <1>4 DEF PumpReceive, MergeReceive, TypeOK
  <2>2. /\ Head(watchCh) \in SUBSET Findings
        /\ Tail(watchCh) \in Seq(SUBSET Findings) /\ Len(Tail(watchCh)) <= 1
    BY <2>1, TakeTyped
  <2> QED BY <1>4, <2>2 DEF PumpReceive, MergeReceive, hop, requests, TypeOK
<1>7. CASE MergeOffer
  <2>1. /\ merging \in SUBSET Findings
        /\ mergedCh \in Seq(SUBSET Findings) /\ Len(mergedCh) <= 1
    BY <1>7 DEF MergeOffer, TypeOK
  <2>2. mergedCh' \in Seq(SUBSET Findings) /\ Len(mergedCh') <= 1
    BY <1>7, <2>1, OfferTyped DEF MergeOffer
  <2> QED BY <1>7, <2>2 DEF MergeOffer, requests, TypeOK
<1>8. CASE PumpReceiveMerged
  <2>1. mergedCh # <<>> /\ mergedCh \in Seq(SUBSET Findings) /\ Len(mergedCh) <= 1
    BY <1>8 DEF PumpReceiveMerged, TypeOK
  <2>2. /\ Head(mergedCh) \in SUBSET Findings
        /\ Tail(mergedCh) \in Seq(SUBSET Findings) /\ Len(Tail(mergedCh)) <= 1
    BY <2>1, TakeTyped
  <2> QED BY <1>8, <2>2 DEF PumpReceiveMerged, requests, TypeOK
<1>5. CASE PumpStore
  BY <1>5 DEF PumpStore, Shown, hop, requests, TypeOK
<1>6. CASE ClusterChanges
  <2>1. PICK f \in Findings :
            ClusterBecomes(cluster \cup {f}) \/ ClusterBecomes(cluster \ {f})
    BY <1>6 DEF ClusterChanges
  <2>2. cluster \cup {f} \in SUBSET Findings /\ cluster \ {f} \in SUBSET Findings
    BY DEF TypeOK
  <2>3. /\ cluster' \in SUBSET Findings
        /\ past' \in Seq(SUBSET Findings)
    BY <2>1, <2>2, ClusterTyped
  <2>4. changes' \in 0..MaxChanges
    BY <1>6, DashboardAssumption DEF ClusterChanges, TypeOK
  <2> QED BY <1>6, <2>3, <2>4 DEF ClusterChanges, requests, refresher, hop, TypeOK
<1> QED
  BY <1>1, <1>2, <1>3, <1>4, <1>5, <1>6, <1>7, <1>8 DEF Refresher, Merger, Consumer

\* The parts of TypeOK that a request's steps touch.
RequestTypes ==
    /\ pc \in [Requests -> {"idle", "done"} \cup Active]
    /\ Ready
    /\ items \in [Requests -> Seq(Findings)]
    /\ results \in [Requests -> Seq([of : Findings, OK : BOOLEAN])]
    /\ snap \in [Requests -> Collections]
    /\ asked \in [Requests -> SUBSET Findings]

\* The other parts.
RestTypes ==
    /\ mode \in {"analyze", "watch", "serve"} /\ gate \in Nat \ {0}
    /\ cluster \in SUBSET Findings /\ report \in SUBSET Findings
    /\ changes \in 0..MaxChanges
    /\ loop \in Collections /\ pump \in {None} \cup SUBSET Findings
    /\ watchCh \in Seq(SUBSET Findings) /\ Len(watchCh) <= 1
    /\ merging \in {None} \cup SUBSET Findings
    /\ mergedCh \in Seq(SUBSET Findings) /\ Len(mergedCh) <= 1
    /\ past \in Seq(SUBSET Findings)

\* TypeOK, in the two parts its proof treats one at a time.
LEMMA TypeParts ==
    /\ TypeOK <=> RequestTypes /\ RestTypes
    /\ TypeOK' <=> RequestTypes' /\ RestTypes'
<1>1. TypeOK <=> RequestTypes /\ RestTypes
  BY DEF TypeOK, RequestTypes, RestTypes, Ready
<1>2. TypeOK' <=> RequestTypes' /\ RestTypes'
  BY DEF TypeOK, RequestTypes, RestTypes, Ready
<1> QED BY <1>1, <1>2

\* The outcome of one item, and what a request has left, are typed.
LEMMA AppliedTyped ==
    ASSUME RequestTypes, NEW r \in Requests, items[r] # <<>>, NEW ok \in BOOLEAN,
           items' = [items EXCEPT ![r] = Tail(@)],
           results' = [results EXCEPT ![r] = Append(@, [of |-> Head(items[r]), OK |-> ok])]
    PROVE  /\ Head(items[r]) \in Findings
           /\ items' \in [Requests -> Seq(Findings)]
           /\ results' \in [Requests -> Seq([of : Findings, OK : BOOLEAN])]
<1>1. items[r] \in Seq(Findings) /\ results[r] \in Seq([of : Findings, OK : BOOLEAN])
  BY DEF RequestTypes
<1>2. Head(items[r]) \in Findings /\ Tail(items[r]) \in Seq(Findings)
  BY <1>1, HeadTailProperties
<1>3. [of |-> Head(items[r]), OK |-> ok] \in [of : Findings, OK : BOOLEAN]
  BY <1>2
<1>4. Append(results[r], [of |-> Head(items[r]), OK |-> ok])
          \in Seq([of : Findings, OK : BOOLEAN])
  BY <1>1, <1>3, AppendProperties
<1> QED BY <1>2, <1>4 DEF RequestTypes

\* A handler that returns leaves typed locals.
LEMMA AnswerTyped ==
    ASSUME TypeOK, NEW r \in Requests, Answer(r)
    PROVE  RequestTypes'
<1>1. /\ pc' \in [Requests -> {"idle", "done"} \cup Active]
      /\ Ready'
  <2>1. \A u \in Requests \ {r} : items'[u] = items[u]
    BY DEF Answer, TypeOK
  <2> QED BY <2>1, GotoTyped DEF Answer
<1>2. items' \in [Requests -> Seq(Findings)]
  <2>1. <<>> \in Seq(Findings)
    OBVIOUS
  <2> QED BY <2>1 DEF Answer, TypeOK
<1>3. results' \in [Requests -> Seq([of : Findings, OK : BOOLEAN])]
  <2>1. <<>> \in Seq([of : Findings, OK : BOOLEAN])
    OBVIOUS
  <2> QED BY <2>1 DEF Answer, TypeOK
<1>4. snap' \in [Requests -> Collections]
  <2>1. NothingRead \in Collections
    BY DashboardAssumption DEF NothingRead, Collections
  <2> QED BY <2>1 DEF Answer, TypeOK
<1>5. asked' \in [Requests -> SUBSET Findings]
  BY DEF Answer, TypeOK
<1> QED BY <1>1, <1>2, <1>3, <1>4, <1>5 DEF RequestTypes

\* The steps of a request keep the types.
LEMMA TypeRequest ==
    ASSUME TypeOK, NEW r \in Requests, Request(r)
    PROVE  TypeOK'
<1> DEFINE PcTypes == /\ pc' \in [Requests -> {"idle", "done"} \cup Active]
                      /\ Ready'
<1>0. RequestTypes /\ RestTypes /\ Fixable(report) \in SUBSET Findings
  BY TypeParts DEF RestTypes, Fixable
<1>1. CASE Reject(r) \/ BatchApplied(r)
  <2>1. PcTypes
    BY <1>1, GotoTyped DEF Reject, BatchApplied, Active
  <2>2. RequestTypes'
    BY <1>0, <1>1, <2>1 DEF Reject, BatchApplied, RequestTypes
  <2>3. RestTypes'
    BY <1>0, <1>1 DEF Reject, BatchApplied, RestTypes, refresher, hop
  <2> QED BY <2>2, <2>3, TypeParts
<1>2. ASSUME NEW f \in Findings, FixById(r, f) \/ FixByAction(r, f) PROVE TypeOK'
  <2>1. PcTypes
    <3>1. CASE FixById(r, f)
      BY <3>1, GotoTyped DEF FixById, Active
    <3>2. CASE FixByAction(r, f)
      <4>1. items'[r] = <<f>> /\ <<f>> # <<>>
        BY <1>0, <3>2 DEF FixByAction, RequestTypes
      <4>2. \A u \in Requests \ {r} : items'[u] = items[u]
        BY <1>0, <3>2 DEF FixByAction, RequestTypes
      <4> QED BY <3>2, <4>1, <4>2, GotoTyped DEF FixByAction, Active
    <3> QED BY <1>2, <3>1, <3>2
  <2>2. items' \in [Requests -> Seq(Findings)]
    <3>1. <<f>> \in Seq(Findings)
      OBVIOUS
    <3> QED BY <1>0, <1>2, <3>1 DEF FixById, FixByAction, RequestTypes
  <2>3. RequestTypes'
    BY <1>0, <1>2, <2>1, <2>2, ZenonT(60) DEF FixById, FixByAction, RequestTypes
  <2>4. RestTypes'
    BY <1>0, <1>2 DEF FixById, FixByAction, RestTypes, refresher, hop
  <2> QED BY <2>3, <2>4, TypeParts
<1>3. CASE Lookup(r)
  <2> PICK f \in asked[r] : items' = [items EXCEPT ![r] = <<f>>]
    BY <1>3 DEF Lookup
  <2>1. PcTypes
    <3>1. items'[r] = <<f>> /\ <<f>> # <<>>
      BY <1>0 DEF RequestTypes
    <3>2. \A u \in Requests \ {r} : items'[u] = items[u]
      BY <1>0, <1>3 DEF Lookup, RequestTypes
    <3> QED BY <1>3, <3>1, <3>2, GotoTyped DEF Lookup, Active
  <2>2. items' \in [Requests -> Seq(Findings)]
    <3>1. <<f>> \in Seq(Findings)
      BY <1>0 DEF RequestTypes
    <3> QED BY <1>0, <3>1 DEF RequestTypes
  <2>3. RequestTypes'
    BY <1>0, <1>3, <2>1, <2>2 DEF Lookup, RequestTypes
  <2>4. RestTypes'
    BY <1>0, <1>3 DEF Lookup, RestTypes, refresher, hop
  <2> QED BY <2>3, <2>4, TypeParts
<1>4. CASE FixAll(r)
  <2>1. PcTypes
    <3>1. \A u \in Requests \ {r} : items'[u] = items[u]
      BY <1>0, <1>4 DEF FixAll, RequestTypes
    <3> QED BY <1>4, <3>1, GotoTyped DEF FixAll, Active
  <2>2. items' \in [Requests -> Seq(Findings)]
    <3>1. PICK s \in OrderForBatch(Fixable(report)) : items' = [items EXCEPT ![r] = s]
      BY <1>4 DEF FixAll
    <3>2. s \in Seq(Findings)
      BY <1>0, BatchIsAListing
    <3> QED BY <1>0, <3>1, <3>2 DEF RequestTypes
  <2>3. RequestTypes'
    BY <1>0, <1>4, <2>1, <2>2 DEF FixAll, RequestTypes
  <2>4. RestTypes'
    BY <1>0, <1>4 DEF FixAll, RestTypes, refresher, hop
  <2> QED BY <2>3, <2>4, TypeParts
<1>5. CASE NotFound(r) \/ ApplyOneFails(r) \/ RefreshFails(r) \/ NoRefresh(r)
  <2>1. RequestTypes'
    BY <1>5, AnswerTyped DEF NotFound, ApplyOneFails, RefreshFails, NoRefresh
  <2>2. RestTypes'
    BY <1>0, <1>5
       DEF NotFound, ApplyOneFails, RefreshFails, NoRefresh, RestTypes, refresher, hop
  <2> QED BY <2>1, <2>2, TypeParts
<1>6. CASE RefreshStore(r)
  <2>1. RequestTypes'
    BY <1>6, AnswerTyped DEF RefreshStore
  <2>2. snap[r].found \in SUBSET Findings
    BY <1>0 DEF RequestTypes, Collections
  <2>3. RestTypes'
    BY <1>0, <1>6, <2>2 DEF RefreshStore, Shown, RestTypes, refresher, hop
  <2> QED BY <2>1, <2>3, TypeParts
<1>7. CASE RefreshList(r) \/ RefreshMisses(r)
  <2>1. snap[r] \in Collections /\ ~Complete(snap[r])
    BY <1>0, <1>7 DEF RefreshList, RefreshMisses, Recollecting, RequestTypes
  <2>2. snap' \in [Requests -> Collections]
    BY <1>0, <1>7, <2>1, ListTyped DEF RefreshList, RefreshMisses, RequestTypes
  <2>3. RequestTypes'
    BY <1>0, <1>7, <2>2 DEF RefreshList, RefreshMisses, RequestTypes, Ready
  <2>4. RestTypes'
    BY <1>0, <1>7 DEF RefreshList, RefreshMisses, RestTypes, refresher, hop
  <2> QED BY <2>3, <2>4, TypeParts
<1>8. CASE ApplyOne(r) \/ ApplyNext(r)
  <2>1. Applied(r) /\ items[r] # <<>>
    BY <1>0, <1>8 DEF ApplyOne, ApplyNext, RequestTypes, Ready
  <2>2. /\ Head(items[r]) \in Findings
        /\ items' \in [Requests -> Seq(Findings)]
        /\ results' \in [Requests -> Seq([of : Findings, OK : BOOLEAN])]
    BY <1>0, <2>1, AppliedTyped DEF Applied
  <2>3. \A u \in Requests \ {r} : items'[u] = items[u]
    BY <1>0, <2>1 DEF Applied, RequestTypes
  <2>4. PcTypes
    <3>1. CASE ApplyOne(r)
      BY <2>3, <3>1, GotoTyped DEF ApplyOne, Active
    <3>2. CASE ApplyNext(r)
      BY <1>0, <2>3, <3>2 DEF ApplyNext, Applied, RequestTypes, Ready
    <3> QED BY <1>8, <3>1, <3>2
  <2>5. RequestTypes'
    BY <1>0, <2>1, <2>2, <2>4 DEF Applied, RequestTypes
  <2>6. RestTypes'
    <3>1. PICK state \in {cluster, cluster \ {Head(items[r])}} : ClusterBecomes(state)
      BY <2>1 DEF Applied
    <3>2. state \in SUBSET Findings
      BY <1>0 DEF RestTypes
    <3>3. /\ cluster' \in SUBSET Findings
          /\ past' \in Seq(SUBSET Findings)
      BY <3>1, <3>2, ClusterTyped
    <3> QED BY <1>0, <2>1, <3>3 DEF Applied, RestTypes, refresher, hop
  <2> QED BY <2>5, <2>6, TypeParts
<1>9. CASE ApplyNextFails(r)
  <2>1. /\ items' \in [Requests -> Seq(Findings)]
        /\ results' \in [Requests -> Seq([of : Findings, OK : BOOLEAN])]
    BY <1>0, <1>9, AppliedTyped DEF ApplyNextFails
  <2>2. RequestTypes'
    <3>1. \A u \in Requests \ {r} : items'[u] = items[u]
      BY <1>0, <1>9 DEF ApplyNextFails, RequestTypes
    <3> QED BY <1>0, <1>9, <2>1, <3>1 DEF ApplyNextFails, RequestTypes, Ready
  <2>3. RestTypes'
    BY <1>0, <1>9 DEF ApplyNextFails, RestTypes, refresher, hop
  <2> QED BY <2>2, <2>3, TypeParts
<1> QED
  BY <1>1, <1>2, <1>3, <1>4, <1>5, <1>6, <1>7, <1>8, <1>9 DEF Request

\* The types hold in every reachable state, whatever is fixed and whatever breaks.
THEOREM DashboardTypesHold == Spec => []TypeOK
<1>1. Init => TypeOK
  <2> SUFFICES ASSUME Init PROVE TypeOK
    OBVIOUS
  <2>1. /\ <<>> \in Seq(SUBSET Findings) /\ Len(<<>>) <= 1
        /\ <<>> \in Seq(Findings) /\ <<>> \in Seq([of : Findings, OK : BOOLEAN])
    OBVIOUS
  <2>2. NothingRead \in Collections
    BY DashboardAssumption DEF NothingRead, Collections
  <2>3. RequestTypes
    BY <2>1, <2>2 DEF Init, RequestTypes, Ready
  <2>4. mode \in {"analyze", "watch", "serve"} /\ gate \in Nat \ {0}
    BY DashboardAssumption DEF Init
  <2>5. past \in Seq(SUBSET Findings)
    BY DEF Init
  <2>6. RestTypes
    BY <2>1, <2>2, <2>4, <2>5, DashboardAssumption DEF Init, RestTypes
  <2> QED BY <2>3, <2>6, TypeParts
<1>2. TypeOK /\ [Next]_vars => TypeOK'
  <2> SUFFICES ASSUME TypeOK, [Next]_vars PROVE TypeOK'
    OBVIOUS
  <2>1. CASE UNCHANGED vars
    BY <2>1 DEF vars, refresher, hop, requests, TypeOK
  <2>2. CASE Next
    BY <2>2, TypeOthers, TypeRequest DEF Next
  <2> QED BY <2>1, <2>2
<1> QED BY <1>1, <1>2, PTL DEF Spec

---------------------------------------------------------------------------
(* The report.  Everything on its way to it - in the refresher, in either  *)
(* channel, with a request - is what one collection read, or what it has   *)
(* read so far.                                                            *)

Readings == {found \in SUBSET Findings : IsReading(found, NLists)}

\* Collections on their way: nothing is reported yet by the lists still to come.
Partial ==
    {c \in Collections : /\ IsReading(c.found, c.read)
                         /\ \A l \in 1..NLists : l > c.read => OfList(c.found, l) = {}}

ReadingInv ==
    /\ past # <<>> /\ cluster = past[Len(past)]
    /\ report \in Readings
    /\ loop \in Partial /\ pump \in {None} \cup Readings
    /\ \A i \in DOMAIN watchCh : watchCh[i] \in Readings
    /\ merging \in {None} \cup Readings
    /\ \A i \in DOMAIN mergedCh : mergedCh[i] \in Readings
    /\ \A r \in Requests : snap[r] \in Partial

\* Nothing is forgotten of the cluster's history, so what was a reading remains one.
LEMMA ReadingsGrow ==
    ASSUME TypeOK, NEW state, past' = past \/ past' = Append(past, state)
    PROVE  Readings \subseteq Readings' /\ Partial \subseteq Partial'
<1>1. /\ DOMAIN past \subseteq DOMAIN past'
      /\ \A i \in DOMAIN past : past'[i] = past[i]
  <2>1. CASE past' = past
    BY <2>1
  <2>2. CASE past' = Append(past, state)
    BY <2>2, AppendProperties DEF TypeOK
  <2> QED BY <2>1, <2>2
<1>2. ASSUME NEW found, NEW n, IsReading(found, n) PROVE IsReading(found, n)'
  <2> PICK at \in [1..n -> DOMAIN past] :
          /\ \A k, l \in 1..n : k <= l => at[k] <= at[l]
          /\ \A l \in 1..n : \/ OfList(found, l) = OfList(past[at[l]], l)
                             \/ l \in BestEffort /\ OfList(found, l) = {}
    BY <1>2 DEF IsReading
  <2>1. at \in [1..n -> DOMAIN past']
    BY <1>1
  <2>2. \A l \in 1..n : past'[at[l]] = past[at[l]]
    BY <1>1
  <2> QED BY <2>1, <2>2 DEF IsReading
<1>3. Readings \subseteq Readings'
  BY <1>2 DEF Readings
<1>4. Partial \subseteq Partial'
  BY <1>2 DEF Partial
<1> QED BY <1>3, <1>4

\* A collection that is through is a reading.
LEMMA CompleteIsReading ==
    ASSUME NEW c \in Partial, Complete(c)
    PROVE  c.found \in Readings
BY DEF Partial, Collections, Complete, Readings

\* A collection that has not begun is one on its way.
LEMMA NothingIsPartial == NothingRead \in Partial
<1>1. NothingRead \in Collections /\ NothingRead.read = 0 /\ NothingRead.found = {}
  BY DashboardAssumption DEF NothingRead, Collections
<1>2. IsReading({}, 0)
  <2>1. 1..0 = {} /\ [i \in {} |-> i] \in [{} -> DOMAIN past]
    OBVIOUS
  <2> QED BY <2>1 DEF IsReading
<1>3. \A l \in 1..NLists : OfList({}, l) = {}
  BY DEF OfList
<1> QED BY <1>1, <1>2, <1>3 DEF Partial

\* The next list is read as the cluster is now, which is no earlier than any list
\* before it.
LEMMA NextListIsRead ==
    ASSUME TypeOK, past # <<>>, cluster = past[Len(past)],
           NEW c \in Partial, ~Complete(c)
    PROVE  WithNext(c) \in Partial /\ WithoutNext(c) \in Partial
<1> DEFINE n == c.read
           m == n + 1
<1>1. /\ c \in Collections /\ n \in 0..NLists /\ n < NLists /\ NLists \in Nat
      /\ IsReading(c.found, n)
  BY DashboardAssumption DEF Partial, Collections, Complete
<1>2. \A l \in 1..NLists : l > n => OfList(c.found, l) = {}
  BY DEF Partial
<1>3. PICK at \in [1..n -> DOMAIN past] :
          /\ \A k, l \in 1..n : k <= l => at[k] <= at[l]
          /\ \A l \in 1..n : \/ OfList(c.found, l) = OfList(past[at[l]], l)
                             \/ l \in BestEffort /\ OfList(c.found, l) = {}
  BY <1>1 DEF IsReading
<1> DEFINE to == [l \in 1..m |-> IF l = m THEN Len(past) ELSE at[l]]
<1>4. /\ to \in [1..m -> DOMAIN past] /\ to[m] = Len(past)
      /\ \A l \in 1..n : to[l] = at[l]
      /\ \A k, l \in 1..m : k <= l => to[k] <= to[l]
  <2>1. /\ DOMAIN past = 1..Len(past) /\ Len(past) \in DOMAIN past /\ Len(past) \in Nat
    BY DEF TypeOK
  <2>2. \A l \in 1..m : l \in 1..n \/ l = m
    BY <1>1
  <2>3. \A l \in 1..n : l \in 1..m /\ l # m
    BY <1>1
  <2>4. m \in 1..m
    BY <1>1
  <2>5. to \in [1..m -> DOMAIN past]
    BY <1>3, <2>1, <2>2
  <2>6. to[m] = Len(past) /\ \A l \in 1..n : to[l] = at[l]
    BY <2>3, <2>4
  <2>7. ASSUME NEW k \in 1..m, NEW l \in 1..m, k <= l PROVE to[k] <= to[l]
    <3>1. CASE l = m
      <4>1. to[k] \in 1..Len(past)
        BY <2>1, <2>5
      <4> QED BY <2>1, <2>6, <3>1, <4>1
    <3>2. CASE l # m
      <4>1. k \in 1..n /\ l \in 1..n
        BY <1>1, <2>7, <3>2
      <4> QED BY <1>3, <2>6, <2>7, <4>1
    <3> QED BY <3>1, <3>2
  <2> QED BY <2>5, <2>6, <2>7
<1> DEFINE Fits(found) ==
               /\ \A l \in 1..NLists : l # m => OfList(found, l) = OfList(c.found, l)
               /\ \/ OfList(found, m) = OfList(cluster, m)
                  \/ m \in BestEffort /\ OfList(found, m) = {}
           Extends(found) ==
               /\ IsReading(found, m)
               /\ \A l \in 1..NLists : l > m => OfList(found, l) = {}
<1>5. ASSUME NEW found \in SUBSET Findings, Fits(found) PROVE Extends(found)
  <2>1. ASSUME NEW l \in 1..m
        PROVE  \/ OfList(found, l) = OfList(past[to[l]], l)
               \/ l \in BestEffort /\ OfList(found, l) = {}
    <3>1. CASE l = m
      BY <1>4, <1>5, <3>1
    <3>2. CASE l # m
      <4>1. l \in 1..n /\ l \in 1..NLists
        BY <1>1, <3>2
      <4> QED BY <1>3, <1>4, <1>5, <3>2, <4>1
    <3> QED BY <3>1, <3>2
  <2>2. IsReading(found, m)
    BY <1>4, <2>1 DEF IsReading
  <2>3. \A l \in 1..NLists : l > m => l # m /\ l > n
    BY <1>1
  <2> QED BY <1>2, <1>5, <2>2, <2>3
<1>6. m \in 1..NLists /\ OfList(c.found, m) = {}
  BY <1>1, <1>2
<1>7. WithNext(c) \in Partial
  <2> DEFINE found == c.found \cup OfList(cluster, m)
  <2>1. ASSUME NEW l \in 1..NLists, l # m PROVE OfList(found, l) = OfList(c.found, l)
    BY <2>1 DEF OfList
  <2>2. OfList(found, m) = OfList(c.found, m) \cup OfList(cluster, m)
    BY DEF OfList
  <2>3. OfList(found, m) = OfList(cluster, m)
    BY <1>6, <2>2
  <2>4. found \in SUBSET Findings
    BY <1>1 DEF OfList, TypeOK, Collections
  <2>5. Extends(found)
    <3>1. Fits(found)
      <4> HIDE DEF found, m
      <4> QED BY <2>1, <2>3
    <3> HIDE DEF found, Fits, Extends
    <3> QED BY <1>5, <2>4, <3>1
  <2>6. WithNext(c) \in Collections /\ WithNext(c).read = m /\ WithNext(c).found = found
    BY <1>1, ListTyped DEF WithNext
  <2> QED BY <2>5, <2>6 DEF Partial
<1>8. ASSUME m \in BestEffort PROVE WithoutNext(c) \in Partial
  <2>1. c.found \in SUBSET Findings
    BY <1>1 DEF Collections
  <2>2. Extends(c.found)
    <3>1. Fits(c.found)
      BY <1>6, <1>8
    <3> HIDE DEF Fits, Extends
    <3> QED BY <1>5, <2>1, <3>1
  <2>3. /\ WithoutNext(c) \in Collections
        /\ WithoutNext(c).read = m /\ WithoutNext(c).found = c.found
    BY <1>1, <1>8, ListTyped DEF WithoutNext, Collections
  <2> QED BY <2>2, <2>3 DEF Partial
<1>9. ASSUME m \notin BestEffort PROVE WithoutNext(c) \in Partial
  BY <1>9, NothingIsPartial DEF WithoutNext
<1> QED BY <1>7, <1>8, <1>9

\* The history ends with the cluster as it is.
LEMMA PresentIsLast ==
    ASSUME TypeOK, ReadingInv, NEW state, ClusterBecomes(state)
    PROVE  past' # <<>> /\ cluster' = past'[Len(past')]
<1>1. CASE state = cluster
  BY <1>1 DEF ClusterBecomes, ReadingInv
<1>2. CASE state # cluster
  <2>1. past' = Append(past, state) /\ past \in Seq(SUBSET Findings)
    BY <1>2 DEF ClusterBecomes, TypeOK
  <2>2. Len(past') = Len(past) + 1 /\ past'[Len(past) + 1] = state /\ Len(past) \in Nat
    BY <2>1, AppendProperties, LenProperties
  <2>3. past' # <<>>
    BY <2>2
  <2> QED BY <2>2, <2>3 DEF ClusterBecomes
<1> QED BY <1>1, <1>2

\* What is taken from a channel, and what stays in it, was in it.
LEMMA TakeRead ==
    ASSUME NEW S, NEW T, NEW ch \in Seq(T), ch # <<>>, \A i \in DOMAIN ch : ch[i] \in S
    PROVE  Head(ch) \in S /\ \A i \in DOMAIN Tail(ch) : Tail(ch)[i] \in S
<1>1. ch \in Seq(S)
  BY IsASeq, LenProperties
<1>2. Head(ch) \in S /\ Tail(ch) \in Seq(S)
  BY <1>1, HeadTailProperties
<1> QED BY <1>2, ElementOfSeq, LenProperties

\* The refresher and its consumers deliver what one collection read.
LEMMA ReadingOthers ==
    ASSUME TypeOK, ReadingInv, Refresher \/ Merger \/ Consumer \/ ClusterChanges
    PROVE  ReadingInv'
<1>1. CASE ClusterChanges
  <2>1. PICK state : ClusterBecomes(state)
    BY <1>1 DEF ClusterChanges
  <2>2. Readings \subseteq Readings' /\ Partial \subseteq Partial'
    BY <2>1, ReadingsGrow DEF ClusterBecomes
  <2>3. past' # <<>> /\ cluster' = past'[Len(past')]
    BY <2>1, PresentIsLast
  <2> QED BY <1>1, <2>2, <2>3 DEF ClusterChanges, requests, refresher, hop, ReadingInv
<1>2. CASE Refresher \/ Merger \/ Consumer
  <2>1. /\ UNCHANGED <<past, cluster, snap>>
        /\ past # <<>> /\ cluster = past[Len(past)]
    BY <1>2 DEF Refresher, Merger, Consumer, LoopList, LoopListFails, TickerStore, LoopPush,
       MergeReceive, MergeOffer, PumpReceive, PumpReceiveMerged, PumpStore, requests,
       ReadingInv
  <2>2. Readings' = Readings /\ Partial' = Partial
    BY <2>1 DEF Readings, Partial, IsReading
  <2>3. /\ report' \in Readings /\ loop' \in Partial /\ pump' \in {None} \cup Readings
        /\ \A i \in DOMAIN watchCh' : watchCh'[i] \in Readings
        /\ merging' \in {None} \cup Readings
        /\ \A i \in DOMAIN mergedCh' : mergedCh'[i] \in Readings
    <3>1. CASE LoopList \/ LoopListFails
      <4>1. loop' \in Partial
        BY <3>1, NextListIsRead DEF LoopList, LoopListFails, ReadingInv
      <4> QED BY <3>1, <4>1 DEF LoopList, LoopListFails, hop, ReadingInv
    <3>2. CASE TickerStore
      <4>1. loop.found \in Readings
        BY <3>2, CompleteIsReading DEF TickerStore, ReadingInv
      <4> QED BY <3>2, <4>1, NothingIsPartial DEF TickerStore, Shown, hop, ReadingInv
    <3>3. CASE LoopPush
      <4>1. loop.found \in Readings
        BY <3>3, CompleteIsReading DEF LoopPush, ReadingInv
      <4>2. watchCh' = <<loop.found>> \/ watchCh' = watchCh
        BY <3>3 DEF LoopPush
      <4>3. \A i \in DOMAIN watchCh' : watchCh'[i] \in Readings
        BY <4>1, <4>2 DEF ReadingInv
      <4> QED BY <3>3, <4>3, NothingIsPartial DEF LoopPush, hop, ReadingInv
    <3>4. CASE PumpReceive \/ MergeReceive
      <4>1. watchCh # <<>> /\ watchCh \in Seq(SUBSET Findings)
        BY <3>4 DEF PumpReceive, MergeReceive, TypeOK
      <4>2. /\ Head(watchCh) \in Readings
            /\ \A i \in DOMAIN Tail(watchCh) : Tail(watchCh)[i] \in Readings
        BY <4>1, TakeRead DEF ReadingInv
      <4> QED BY <3>4, <4>2 DEF PumpReceive, MergeReceive, hop, ReadingInv
    <3>5. CASE MergeOffer
      <4>1. merging \in Readings
        BY <3>5 DEF MergeOffer, ReadingInv
      <4>2. mergedCh' = <<merging>> \/ mergedCh' = mergedCh
        BY <3>5 DEF MergeOffer
      <4>3. \A i \in DOMAIN mergedCh' : mergedCh'[i] \in Readings
        BY <4>1, <4>2 DEF ReadingInv
      <4> QED BY <3>5, <4>3 DEF MergeOffer, ReadingInv
    <3>6. CASE PumpReceiveMerged
      <4>1. mergedCh # <<>> /\ mergedCh \in Seq(SUBSET Findings)
        BY <3>6 DEF PumpReceiveMerged, TypeOK
      <4>2. /\ Head(mergedCh) \in Readings
            /\ \A i \in DOMAIN Tail(mergedCh) : Tail(mergedCh)[i] \in Readings
        BY <4>1, TakeRead DEF ReadingInv
      <4> QED BY <3>6, <4>2 DEF PumpReceiveMerged, ReadingInv
    <3>7. CASE PumpStore
      BY <3>7 DEF PumpStore, Shown, hop, ReadingInv
    <3> QED
      BY <1>2, <3>1, <3>2, <3>3, <3>4, <3>5, <3>6, <3>7 DEF Refresher, Merger, Consumer
  <2> QED BY <2>1, <2>2, <2>3 DEF ReadingInv
<1> QED BY <1>1, <1>2

\* The steps of a request, as far as the cluster and its history see them.
LEMMA RequestAndCluster ==
    ASSUME NEW r \in Requests, Request(r)
    PROVE  /\ UNCHANGED refresher
           /\ UNCHANGED <<cluster, past>> \/ \E state : ClusterBecomes(state)
BY DEF Request, Reject, FixAll, Lookup, NotFound, FixById, FixByAction, ApplyOne,
   ApplyOneFails, ApplyNext, ApplyNextFails, BatchApplied, RefreshList, RefreshMisses,
   RefreshFails, NoRefresh, RefreshStore, Applied

\* A request stores what its collection read, or nothing.
LEMMA ReadingRequest ==
    ASSUME TypeOK, ReadingInv, NEW r \in Requests, Request(r)
    PROVE  ReadingInv'
<1>1. /\ UNCHANGED refresher
      /\ UNCHANGED <<cluster, past>> \/ \E state : ClusterBecomes(state)
  BY RequestAndCluster
<1>2. Readings \subseteq Readings' /\ Partial \subseteq Partial'
  <2>1. CASE UNCHANGED <<cluster, past>>
    BY <2>1, ReadingsGrow
  <2>2. CASE \E state : ClusterBecomes(state)
    BY <2>2, ReadingsGrow DEF ClusterBecomes
  <2> QED BY <1>1, <2>1, <2>2
<1>3. past' # <<>> /\ cluster' = past'[Len(past')]
  <2>1. CASE UNCHANGED <<cluster, past>>
    BY <2>1 DEF ReadingInv
  <2>2. CASE \E state : ClusterBecomes(state)
    BY <2>2, PresentIsLast
  <2> QED BY <1>1, <2>1, <2>2
<1>4. report' = report \/ (RefreshStore(r) /\ report' = snap[r].found)
  BY DEF Request, Reject, FixAll, Lookup, NotFound, FixById, FixByAction, ApplyOne,
     ApplyOneFails, ApplyNext, ApplyNextFails, BatchApplied, RefreshList, RefreshMisses,
     RefreshFails, NoRefresh, RefreshStore, Applied, Shown
<1>5. report' \in Readings
  <2>1. CASE report' = report
    BY <2>1 DEF ReadingInv
  <2>2. CASE RefreshStore(r) /\ report' = snap[r].found
    BY <2>2, CompleteIsReading DEF RefreshStore, ReadingInv
  <2> QED BY <1>4, <2>1, <2>2
<1>6. \/ snap' = snap \/ snap' = [snap EXCEPT ![r] = NothingRead]
      \/ RefreshList(r) \/ RefreshMisses(r)
  BY DEF Request, Reject, FixAll, Lookup, NotFound, FixById, FixByAction, ApplyOne,
     ApplyOneFails, ApplyNext, ApplyNextFails, BatchApplied,
     RefreshFails, NoRefresh, RefreshStore, Applied, Answer
<1>7. \A u \in Requests : snap'[u] \in Partial
  <2>1. CASE RefreshList(r) \/ RefreshMisses(r)
    <3>1. WithNext(snap[r]) \in Partial /\ WithoutNext(snap[r]) \in Partial
      BY <2>1, NextListIsRead DEF RefreshList, RefreshMisses, Recollecting, ReadingInv
    <3>2. snap' = [snap EXCEPT ![r] = WithNext(snap[r])]
          \/ snap' = [snap EXCEPT ![r] = WithoutNext(snap[r])]
      BY <2>1 DEF RefreshList, RefreshMisses
    <3> QED BY <3>1, <3>2 DEF ReadingInv, TypeOK
  <2>2. CASE snap' = snap \/ snap' = [snap EXCEPT ![r] = NothingRead]
    BY <2>2, NothingIsPartial DEF ReadingInv, TypeOK
  <2> QED BY <1>6, <2>1, <2>2
<1> QED BY <1>1, <1>2, <1>3, <1>5, <1>7 DEF ReadingInv, refresher, hop

\* Whatever requests and refreshers race, and whichever lists fail or are cut off, the
\* report is always what one collection read of the cluster, list after list.
THEOREM ReportIsAlwaysOneReading == Spec => []ReportIsOneReading
<1>1. Init => ReadingInv
  <2> SUFFICES ASSUME Init PROVE ReadingInv
    OBVIOUS
  <2>1. past = <<Findings>> /\ cluster = Findings /\ report = Findings
    BY DEF Init
  <2>2. past # <<>> /\ Len(past) = 1 /\ past[1] = Findings /\ DOMAIN past = 1..1
    BY <2>1
  <2>3. IsReading(Findings, NLists)
    <3> DEFINE at == [l \in 1..NLists |-> 1]
    <3>1. at \in [1..NLists -> DOMAIN past] /\ \A l \in 1..NLists : at[l] = 1
      BY <2>2
    <3> HIDE DEF at
    <3>2. /\ \A k, l \in 1..NLists : at[k] <= at[l]
          /\ \A l \in 1..NLists : past[at[l]] = Findings
      BY <2>2, <3>1
    <3> QED BY <3>1, <3>2 DEF IsReading
  <2>4. report \in Readings
    BY <2>1, <2>3 DEF Readings
  <2> QED BY <2>1, <2>2, <2>4, NothingIsPartial DEF Init, ReadingInv
<1>2. TypeOK /\ ReadingInv /\ [Next]_vars => ReadingInv'
  <2> SUFFICES ASSUME TypeOK, ReadingInv, [Next]_vars PROVE ReadingInv'
    OBVIOUS
  <2>1. CASE UNCHANGED vars
    <3>1. Readings' = Readings /\ Partial' = Partial
      BY <2>1 DEF vars, Readings, Partial, IsReading
    <3> QED BY <2>1, <3>1 DEF vars, refresher, hop, requests, ReadingInv
  <2>2. CASE Next
    BY <2>2, ReadingOthers, ReadingRequest DEF Next
  <2> QED BY <2>1, <2>2
<1>3. ReadingInv => ReportIsOneReading
  BY DEF ReadingInv, Readings, ReportIsOneReading
<1> QED BY <1>1, <1>2, <1>3, DashboardTypesHold, PTL DEF Spec

---------------------------------------------------------------------------
(* Batches.  What a request has tried followed by what it has left lists   *)
(* what it was asked for, in order, from its first item to its answer.     *)

Working == {"one", "all", "collect"}

Tried(r) == [i \in DOMAIN results[r] |-> results[r][i].of]
Whole(r) == Tried(r) \o items[r]

ListsInOrder(q, fs) ==
    /\ Len(q) = Cardinality(fs) /\ ToSet(q) = fs
    /\ \A i, j \in DOMAIN q : i < j => orderOf(Kind[q[i]]) <= orderOf(Kind[q[j]])

BatchInv ==
    \A r \in Requests : /\ pc[r] \in Working => ListsInOrder(Whole(r), asked[r])
                        /\ pc[r] \notin Working => results[r] = <<>>
                        /\ pc[r] = "lookup" => \E f \in Findings : asked[r] = {f}

\* What has been tried is a list of findings.
LEMMA TriedIsSeq ==
    ASSUME TypeOK, NEW r \in Requests
    PROVE  /\ Tried(r) \in Seq(Findings) /\ Len(Tried(r)) = Len(results[r])
           /\ results[r] \in Seq([of : Findings, OK : BOOLEAN]) /\ items[r] \in Seq(Findings)
<1>1. results[r] \in Seq([of : Findings, OK : BOOLEAN]) /\ items[r] \in Seq(Findings)
  BY DEF TypeOK
<1>2. \A i \in 1..Len(results[r]) : results[r][i].of \in Findings
  <2> TAKE i \in 1..Len(results[r])
  <2>1. results[r][i] \in [of : Findings, OK : BOOLEAN]
    BY <1>1, ElementOfSeq
  <2> QED BY <2>1
<1>3. Tried(r) = [i \in 1..Len(results[r]) |-> results[r][i].of]
  BY <1>1 DEF Tried
<1> QED BY <1>1, <1>2, <1>3, IsASeq, LenProperties

\* A single fix is a batch of one.
LEMMA OneInOrder ==
    ASSUME NEW f \in Findings
    PROVE  ListsInOrder(<<f>>, {f})
<1>1. Cardinality({f}) = 1
  BY FS_Singleton
<1> QED BY <1>1 DEF ListsInOrder, ToSet

\* A request starts with nothing tried.
LEMMA NothingTried ==
    ASSUME NEW r \in Requests, results[r] = <<>>, NEW s \in Seq(Findings), items[r] = s
    PROVE  Whole(r) = s
<1>1. Tried(r) = <<>>
  BY DEF Tried
<1> QED BY <1>1, ConcatEmptySeq DEF Whole

\* An item whose outcome is known moves from what is left to what was tried.
LEMMA AppliedMoves ==
    ASSUME TypeOK, NEW r \in Requests, items[r] # <<>>, NEW ok \in BOOLEAN,
           items' = [items EXCEPT ![r] = Tail(@)],
           results' = [results EXCEPT ![r] = Append(@, [of |-> Head(items[r]), OK |-> ok])]
    PROVE  Whole(r)' = Whole(r)
<1> DEFINE new == [of |-> Head(items[r]), OK |-> ok]
<1>1. /\ Tried(r) \in Seq(Findings) /\ Len(Tried(r)) = Len(results[r])
      /\ results[r] \in Seq([of : Findings, OK : BOOLEAN]) /\ items[r] \in Seq(Findings)
  BY TriedIsSeq
<1>2. items'[r] = Tail(items[r]) /\ results'[r] = Append(results[r], new)
  BY DEF TypeOK
<1>3. Head(items[r]) \in Findings /\ new \in [of : Findings, OK : BOOLEAN]
  BY <1>1, HeadTailProperties
<1>4. Tried(r)' = Append(Tried(r), Head(items[r]))
  <2>1. /\ DOMAIN results'[r] = 1..(Len(results[r]) + 1)
        /\ results'[r][Len(results[r]) + 1] = new
        /\ \A i \in 1..Len(results[r]) : results'[r][i] = results[r][i]
    BY <1>1, <1>2, <1>3, AppendProperties
  <2>2. Append(Tried(r), Head(items[r]))
            = [i \in 1..(Len(results[r]) + 1) |->
                  IF i <= Len(results[r]) THEN results[r][i].of ELSE Head(items[r])]
    BY <1>1, <1>3, AppendProperties DEF Tried
  <2> QED BY <1>1, <2>1, <2>2 DEF Tried
<1> QED BY <1>1, <1>2, <1>4, MoveHead DEF Whole

\* The steps of a request either move an item within its batch, or begin or end it.
LEMMA BatchRequest ==
    ASSUME TypeOK, BatchInv, NEW r \in Requests, Request(r)
    PROVE  BatchInv'
<1> DEFINE Kept(u) == /\ pc'[u] = pc[u] /\ asked'[u] = asked[u]
                      /\ results'[u] = results[u] /\ items'[u] = items[u]
           Fine(u) == /\ pc'[u] \in Working => ListsInOrder(Whole(u)', asked'[u])
                      /\ pc'[u] \notin Working => results'[u] = <<>>
                      /\ pc'[u] = "lookup" => \E f \in Findings : asked'[u] = {f}
<1>1. \A u \in Requests \ {r} : Kept(u)
  BY DEF Request, Reject, FixAll, Lookup, NotFound, FixById, FixByAction, ApplyOne,
     ApplyOneFails, ApplyNext, ApplyNextFails, BatchApplied, RefreshList, RefreshMisses,
     RefreshFails, NoRefresh, RefreshStore, Applied, Answer, Goto, TypeOK
<1>2. \A u \in Requests : Kept(u) => Fine(u)
  BY DEF BatchInv, Whole, Tried
<1>3. /\ pc[r] \in Working => ListsInOrder(Whole(r), asked[r])
      /\ pc[r] \notin Working => results[r] = <<>>
  BY DEF BatchInv
<1>4. Fine(r)
  <2>1. CASE Answer(r)
    BY <2>1 DEF Answer, Goto, Working, TypeOK
  <2>2. CASE Reject(r) \/ \E f \in Findings : FixById(r, f)
    BY <2>2, <1>3 DEF Reject, FixById, Goto, Working, TypeOK
  <2>3. ASSUME NEW f \in Findings, FixByAction(r, f) PROVE Fine(r)
    <3>1. results'[r] = <<>> /\ items'[r] = <<f>> /\ asked'[r] = {f} /\ pc'[r] \in Working
      BY <2>3, <1>3 DEF FixByAction, Goto, Working, TypeOK
    <3>2. Whole(r)' = <<f>>
      BY <3>1, ConcatEmptySeq DEF Whole, Tried
    <3> QED BY <3>1, <3>2, OneInOrder
  <2>4. CASE Lookup(r)
    <3>1. PICK f \in Findings : asked[r] = {f}
      BY <2>4 DEF Lookup, BatchInv
    <3>2. results'[r] = <<>> /\ items'[r] = <<f>> /\ asked'[r] = {f} /\ pc'[r] = "one"
      BY <2>4, <3>1, <1>3 DEF Lookup, Goto, Working, TypeOK
    <3>3. Whole(r)' = <<f>>
      BY <3>2, ConcatEmptySeq DEF Whole, Tried
    <3> QED BY <3>2, <3>3, OneInOrder DEF Working
  <2>5. CASE FixAll(r)
    <3>1. PICK s \in OrderForBatch(Fixable(report)) : items' = [items EXCEPT ![r] = s]
      BY <2>5 DEF FixAll
    <3>2. s \in Seq(Findings) /\ ListsInOrder(s, Fixable(report))
      BY BatchIsAListing DEF Fixable, TypeOK, ListsInOrder
    <3>3. /\ results'[r] = <<>> /\ items'[r] = s /\ asked'[r] = Fixable(report)
          /\ pc'[r] \in Working
      BY <2>5, <3>1, <1>3 DEF FixAll, Goto, Working, TypeOK
    <3>4. Whole(r)' = s
      BY <3>2, <3>3, ConcatEmptySeq DEF Whole, Tried
    <3> QED BY <3>2, <3>3, <3>4 DEF Working
  <2>6. CASE ApplyOne(r) \/ ApplyNext(r) \/ ApplyNextFails(r)
    <3>1. pc[r] \in Working /\ pc'[r] \in Working /\ asked'[r] = asked[r] /\ items[r] # <<>>
      BY <2>6 DEF ApplyOne, ApplyNext, ApplyNextFails, Applied, Goto, Working, TypeOK
    <3>2. Whole(r)' = Whole(r)
      BY <2>6, <3>1, AppliedMoves DEF ApplyOne, ApplyNext, ApplyNextFails, Applied
    <3> QED BY <1>3, <3>1, <3>2 DEF Working
  <2>7. CASE BatchApplied(r) \/ RefreshList(r) \/ RefreshMisses(r)
    <3>1. /\ pc[r] \in Working /\ pc'[r] \in Working
          /\ asked'[r] = asked[r] /\ results'[r] = results[r] /\ items'[r] = items[r]
      BY <2>7
         DEF BatchApplied, RefreshList, RefreshMisses, Recollecting, Goto, Working, TypeOK
    <3> QED BY <1>3, <3>1 DEF Whole, Tried, Working
  <2> QED BY <2>1, <2>2, <2>3, <2>4, <2>5, <2>6, <2>7
          DEF Request, NotFound, ApplyOneFails, RefreshFails, NoRefresh, RefreshStore
<1> QED BY <1>1, <1>2, <1>4 DEF BatchInv

\* Neither the refresher nor the cluster touches a batch, so it stays in order and
\* complete whatever they do.
LEMMA BatchHolds == Spec => []BatchInv
<1>1. Init => BatchInv
  BY DEF Init, BatchInv, Working
<1>2. TypeOK /\ BatchInv /\ [Next]_vars => BatchInv'
  <2> SUFFICES ASSUME TypeOK, BatchInv, [Next]_vars PROVE BatchInv'
    OBVIOUS
  <2>1. CASE UNCHANGED requests
    BY <2>1 DEF requests, BatchInv, Whole, Tried
  <2>2. CASE \E r \in Requests : Request(r)
    BY <2>2, BatchRequest
  <2>3. (Refresher \/ Merger \/ Consumer \/ ClusterChanges) => UNCHANGED requests
    BY DEF Refresher, Merger, Consumer, LoopList, LoopListFails, TickerStore, LoopPush,
           MergeReceive, MergeOffer, PumpReceive, PumpReceiveMerged, PumpStore, ClusterChanges
  <2> QED BY <2>1, <2>2, <2>3 DEF Next, vars
<1> QED BY <1>1, <1>2, DashboardTypesHold, PTL DEF Spec

\* A batch answers with one result for each remediation the report listed when
\* the batch was taken, whichever of them failed.
THEOREM BatchIsReportedInFull == Spec => []BatchReportsAll
<1>1. BatchInv => BatchReportsAll
  BY DEF BatchInv, BatchReportsAll, ListsInOrder, Whole, Tried, Working
<1> QED BY <1>1, BatchHolds, PTL

\* No batch deletes before it restarts, however the batches of several requests
\* interleave.
THEOREM BatchKeepsItsOrder == Spec => []RestartsBeforeDeletes
<1>1. TypeOK /\ BatchInv => RestartsBeforeDeletes
  <2> SUFFICES ASSUME TypeOK, BatchInv, NEW r \in Requests,
                      NEW i \in DOMAIN results[r], NEW j \in DOMAIN results[r], i < j
               PROVE  orderOf(Kind[results[r][i].of]) <= orderOf(Kind[results[r][j].of])
    BY DEF RestartsBeforeDeletes
  <2>1. /\ Tried(r) \in Seq(Findings) /\ Len(Tried(r)) = Len(results[r])
        /\ results[r] \in Seq([of : Findings, OK : BOOLEAN]) /\ items[r] \in Seq(Findings)
    BY TriedIsSeq
  <2>2. pc[r] \in Working
    BY <2>1 DEF BatchInv
  <2>3. \A k \in DOMAIN results[r] : k \in DOMAIN Whole(r) /\ Whole(r)[k] = results[r][k].of
    <3> TAKE k \in DOMAIN results[r]
    <3>1. k \in 1..Len(Tried(r)) /\ Len(items[r]) \in Nat /\ Len(Tried(r)) \in Nat
      BY <2>1, LenProperties
    <3>2. \A m \in 1..(Len(Tried(r)) + Len(items[r])) :
              Whole(r)[m] = IF m <= Len(Tried(r)) THEN Tried(r)[m]
                                                  ELSE items[r][m - Len(Tried(r))]
      BY <2>1, ConcatProperties DEF Whole
    <3>3. Whole(r) \in Seq(Findings) /\ Len(Whole(r)) = Len(Tried(r)) + Len(items[r])
      BY <2>1, ConcatProperties DEF Whole
    <3>4. /\ Whole(r) \in Seq(Findings) /\ Len(Whole(r)) = Len(Tried(r)) + Len(items[r])
          /\ Whole(r)[k] = Tried(r)[k]
      <4>1. k \in 1..(Len(Tried(r)) + Len(items[r])) /\ k <= Len(Tried(r))
        BY <3>1
      <4> QED BY <3>2, <3>3, <4>1
    <3>5. k \in DOMAIN Whole(r)
      BY <3>1, <3>4, LenProperties
    <3> QED BY <3>4, <3>5 DEF Tried
  <2> QED BY <2>2, <2>3 DEF BatchInv, ListsInOrder
<1> QED BY <1>1, BatchHolds, DashboardTypesHold, PTL
=============================================================================
