--------------------------- MODULE ScriptValProofs ---------------------------
(***************************************************************************)
(* Proofs about ScriptVal, for any number of processors and of inputs.     *)
(***************************************************************************)
EXTENDS ScriptVal, FiniteSetTheorems, TLAPS

(***************************************************************************)
(* What the accounting of items needs to be kept up: a busy handler holds  *)
(* an item that was handed out, nothing is handed out before the handlers  *)
(* start, and quitChan is closed at the return only.                       *)
(***************************************************************************)
HoldsItem ==
  /\ \A h \in Busy : handler[h].item \in DOMAIN items
  /\ pc # "returned" => \A h \in Busy : handler[h].item <= currentItem
  /\ pc = "start" => currentItem = 0 /\ processedItems = 0 /\ Busy = {}
  /\ pc # "returned" => ~ quit /\ result = NoError

Inv == TypeOK /\ ItemsAccounted /\ VerdictRight /\ HoldsItem

\* The handlers are finitely many, and so are the busy ones.
LEMMA FiniteHandlers ==
  /\ Limit \in Nat
  /\ IsFiniteSet(Handlers)
  /\ IsFiniteSet(Busy)
  /\ Cardinality(Busy) \in Nat
<1>1. Limit \in Nat
  BY ScriptAssumption DEF Limit
<1>2. IsFiniteSet(Handlers)
  BY <1>1, FS_Interval DEF Handlers
<1>3. IsFiniteSet(Busy)
  BY <1>2, FS_Subset DEF Busy
<1>. QED
  BY <1>1, <1>2, <1>3, FS_CardinalityType

\* The initial states satisfy the invariant.
LEMMA InitInv == Init => Inv
<1>. SUFFICES ASSUME Init PROVE Inv
  OBVIOUS
<1>1. PICK n \in 0..MaxInputs : items \in [1..n -> Outcomes]
  BY DEF Init
<1>2. n \in Nat /\ items \in Seq(Outcomes) /\ Len(items) = n
  BY <1>1, ScriptAssumption
<1>3. \A h \in Handlers : handler[h] = NotStarted
  BY DEF Init
<1>4. Busy = {}
  BY <1>3 DEF Busy, At, NotStarted
<1>5. TypeOK
  <2>1. 0 \in 0..Len(items)
    BY <1>2
  <2>2. handler \in [Handlers ->
          [at : {"none", "ready", "checking", "sending", "exited"}, item : 0..Len(items)]]
    BY <2>1 DEF Init, NotStarted
  <2>. QED
    BY <1>2, <2>1, <2>2 DEF TypeOK, Init, Outcomes
<1>. QED
  BY <1>4, <1>5 DEF Init, Inv, ItemsAccounted, VerdictRight, HoldsItem

(***************************************************************************)
(* Steps of one handler that change nothing about who holds which item     *)
(* while Validate runs.                                                    *)
(***************************************************************************)
LEMMA CheckItemInv ==
  ASSUME Inv, NEW h \in Handlers, CheckItem(h)
  PROVE  Inv'
<1>. USE DEF Inv
<1>1. handler' \in [Handlers ->
        [at : {"none", "ready", "checking", "sending", "exited"}, item : 0..Len(items)]]
  BY DEF CheckItem, TypeOK
<1>2. \A k \in Handlers : handler'[k].item = handler[k].item
  BY DEF CheckItem, TypeOK
<1>3. Busy' = Busy
  BY DEF CheckItem, Busy, At, TypeOK
<1>4. Cardinality(Busy') = Cardinality(Busy)
  BY <1>3
<1>5. TypeOK'
  BY <1>1 DEF CheckItem, TypeOK
<1>6. ItemsAccounted'
  BY <1>2, <1>3, <1>4 DEF CheckItem, ItemsAccounted, Busy
<1>7. VerdictRight'
  BY DEF CheckItem, VerdictRight
<1>8. HoldsItem'
  BY <1>2, <1>3 DEF CheckItem, HoldsItem, Busy
<1>. QED
  BY <1>5, <1>6, <1>7, <1>8

LEMMA QuitInv ==
  ASSUME Inv, NEW h \in Handlers, Quit(h)
  PROVE  Inv'
<1>. USE DEF Inv
<1>1. pc = "returned" /\ pc' = "returned"
  BY DEF Quit, HoldsItem, TypeOK
<1>2. handler' \in [Handlers ->
        [at : {"none", "ready", "checking", "sending", "exited"}, item : 0..Len(items)]]
  <2>1. 0 \in 0..Len(items)
    BY DEF TypeOK
  <2>. QED
    BY <2>1 DEF Quit, TypeOK
<1>3. \A k \in Busy' : k \in Busy /\ handler'[k].item = handler[k].item
  BY DEF Quit, Busy, At, TypeOK
<1>4. TypeOK'
  BY <1>2 DEF Quit, TypeOK
<1>5. ItemsAccounted' /\ VerdictRight'
  BY <1>1 DEF Quit, ItemsAccounted, VerdictRight
<1>6. HoldsItem'
  BY <1>1, <1>3 DEF Quit, HoldsItem
<1>. QED
  BY <1>4, <1>5, <1>6

\* The return without work, and the start of the handlers.
LEMMA StartInv ==
  ASSUME Inv, ReturnAtOnce \/ StartHandlers
  PROVE  Inv'
<1>. USE DEF Inv
<1>1. CASE ReturnAtOnce
  <2>1. Busy' = Busy /\ Busy = {}
    BY <1>1 DEF ReturnAtOnce, Busy, At, HoldsItem
  <2>2. TypeOK'
    BY <1>1 DEF ReturnAtOnce, TypeOK
  <2>3. result = NoError
    BY <1>1 DEF ReturnAtOnce, HoldsItem
  <2>. QED
    BY <1>1, <2>1, <2>2, <2>3 DEF ReturnAtOnce, ItemsAccounted, VerdictRight, HoldsItem
<1>2. CASE StartHandlers
  <2>1. Busy' = {}
    BY <1>2 DEF StartHandlers, Busy, At, NotStarted
  <2>2. Cardinality(Busy') = 0
    BY <2>1, FS_EmptySet
  <2>3. TypeOK'
    BY <1>2 DEF StartHandlers, TypeOK, NotStarted
  <2>4. currentItem = 0 /\ processedItems = 0 /\ currentItem' = 0 /\ processedItems' = 0
    BY <1>2 DEF StartHandlers, HoldsItem
  <2>5. ItemsAccounted'
    BY <1>2, <2>1, <2>2, <2>4 DEF StartHandlers, ItemsAccounted
  <2>6. VerdictRight' /\ HoldsItem'
    BY <1>2, <2>1 DEF StartHandlers, VerdictRight, HoldsItem
  <2>. QED
    BY <2>3, <2>5, <2>6
<1>. QED
  BY <1>1, <1>2

\* Handing out an item makes one more handler busy, with an item of its own.
LEMMA SendItemInv ==
  ASSUME Inv, NEW h \in Handlers, SendItem(h)
  PROVE  Inv'
<1>. USE DEF Inv
<1>1. /\ Len(items) \in Nat /\ currentItem \in Nat /\ currentItem < Len(items)
      /\ currentItem + 1 \in 1..Len(items)
      /\ DOMAIN items = 1..Len(items)
  BY DEF SendItem, TypeOK
<1>2. h \notin Busy
  BY DEF SendItem, Busy, At
<1>3. /\ \A k \in Handlers \ {h} : handler'[k] = handler[k]
      /\ handler'[h] = [at |-> "checking", item |-> currentItem + 1]
  BY DEF SendItem, TypeOK
<1>4. Busy' = Busy \cup {h}
  BY <1>3 DEF Busy, At
<1>5. Cardinality(Busy') = Cardinality(Busy) + 1
  BY <1>2, <1>4, FiniteHandlers, FS_AddElement
<1>6. TypeOK'
  BY <1>1 DEF SendItem, TypeOK
<1>7. \A k \in Busy : handler'[k].item = handler[k].item /\ handler[k].item <= currentItem
                      /\ handler[k].item \in Nat
  BY <1>2, <1>3 DEF SendItem, Busy, HoldsItem, TypeOK
<1>8. ItemsAccounted'
  <2>1. currentItem' = processedItems' + Cardinality(Busy')
    BY <1>5, FiniteHandlers DEF SendItem, ItemsAccounted, TypeOK
  <2>2. \A k, l \in Busy' : handler'[k].item = handler'[l].item => k = l
    BY <1>1, <1>3, <1>4, <1>7 DEF SendItem, ItemsAccounted
  <2>3. \A i \in 1..currentItem' : items[i] = NoError \/ \E k \in Busy' : handler'[k].item = i
    BY <1>1, <1>3, <1>4, <1>7 DEF SendItem, ItemsAccounted
  <2>. QED
    BY <2>1, <2>2, <2>3 DEF SendItem, ItemsAccounted
<1>9. VerdictRight'
  BY DEF SendItem, VerdictRight
<1>10. HoldsItem'
  BY <1>1, <1>3, <1>4, <1>7 DEF SendItem, HoldsItem
<1>. QED
  BY <1>6, <1>8, <1>9, <1>10

(***************************************************************************)
(* Taking a result.  If it was the last one, every item was handed out and *)
(* nobody is busy any more, so every item is good or it is the one whose   *)
(* result was taken.                                                       *)
(***************************************************************************)
LEMMA ReceiveResultInv ==
  ASSUME Inv, NEW h \in Handlers, ReceiveResult(h)
  PROVE  Inv'
<1>. USE DEF Inv
<1>. DEFINE err == items[handler[h].item]
<1>1. h \in Busy /\ handler[h].item \in DOMAIN items /\ pc = "select"
  BY DEF ReceiveResult, Busy, At, HoldsItem
<1>2. err \in Outcomes
  BY <1>1 DEF TypeOK
<1>3. /\ \A k \in Handlers \ {h} : handler'[k] = handler[k]
      /\ handler'[h] = [at |-> IF err = NoError THEN "ready" ELSE "exited", item |-> 0]
  BY DEF ReceiveResult, TypeOK
<1>4. Busy' = Busy \ {h}
  BY <1>3 DEF Busy, At
<1>5. Cardinality(Busy') = Cardinality(Busy) - 1 /\ Cardinality(Busy') \in Nat
  <2>1. Cardinality(Busy') = Cardinality(Busy) - 1 /\ IsFiniteSet(Busy')
    BY <1>1, <1>4, FiniteHandlers, FS_RemoveElement
  <2>. QED
    BY <2>1, FS_CardinalityType
<1>6. /\ currentItem' = currentItem /\ processedItems' = processedItems + 1
      /\ currentItem \in Nat /\ processedItems \in Nat /\ currentItem <= Len(items)
      /\ currentItem = processedItems' + Cardinality(Busy')
      /\ processedItems' \in 0..Len(items)
      /\ items' = items /\ Len(items) \in Nat /\ DOMAIN items = 1..Len(items)
  BY <1>1, <1>5, FiniteHandlers DEF ReceiveResult, TypeOK, ItemsAccounted
<1>7. TypeOK'
  <2>1. 0 \in 0..Len(items)
    BY <1>6
  <2>2. handler' \in [Handlers ->
          [at : {"none", "ready", "checking", "sending", "exited"}, item : 0..Len(items)]]
    BY <2>1 DEF ReceiveResult, TypeOK
  <2>3. /\ pc' \in {"start", "select", "returned"}
        /\ quit' \in BOOLEAN
        /\ result' \in Outcomes
    BY <1>2 DEF ReceiveResult, Return, TypeOK
  <2>. QED
    BY <1>6, <2>2, <2>3 DEF TypeOK
<1>8. \A i \in 1..currentItem :
        \/ items[i] = NoError
        \/ i = handler[h].item
        \/ \E k \in Busy' : handler'[k].item = i
  BY <1>1, <1>3, <1>4 DEF ItemsAccounted, Busy
<1>9. ItemsAccounted'
  <2>1. pc' = "select" => err = NoError
    BY <1>1 DEF ReceiveResult, Return
  <2>2. \A k, l \in Busy' : handler'[k].item = handler'[l].item => k = l
    BY <1>1, <1>3, <1>4 DEF ItemsAccounted, Busy
  <2>. QED
    BY <2>1, <2>2, <1>6, <1>8 DEF ItemsAccounted
<1>10. VerdictRight'
  <2>1. CASE err # NoError
    BY <2>1, <1>1, <1>6 DEF ReceiveResult, Return, VerdictRight
  <2>2. CASE err = NoError /\ processedItems' = Len(items)
    <3>1. currentItem = Len(items) /\ Cardinality(Busy') = 0
      <4>. DEFINE busy == Cardinality(Busy')
                  last == Len(items)
      <4>1. /\ busy \in Nat /\ last \in Nat /\ currentItem \in Nat
            /\ currentItem <= last /\ currentItem = last + busy
        BY <2>2, <1>5, <1>6
      <4>. HIDE DEF busy, last
      <4>2. currentItem = last /\ busy = 0
        BY <4>1
      <4>. QED
        BY <4>2 DEF busy, last
    <3>2. Busy' = {}
      <4>1. IsFiniteSet(Busy')
        BY <1>4, FiniteHandlers, FS_RemoveElement
      <4>. QED
        BY <3>1, <4>1, FS_EmptySet
    <3>3. \A i \in DOMAIN items : items[i] = NoError
      BY <2>2, <3>1, <3>2, <1>6, <1>8
    <3>4. result' = NoError
      BY <2>2, <1>6 DEF ReceiveResult, Return, AllProcessed
    <3>. QED
      BY <3>3, <3>4, <1>6 DEF VerdictRight
  <2>3. CASE err = NoError /\ processedItems' # Len(items)
    BY <2>3, <1>1, <1>6 DEF ReceiveResult, AllProcessed, VerdictRight
  <2>. QED
    BY <2>1, <2>2, <2>3
<1>11. HoldsItem'
  <2>1. \A k \in Busy' : k \in Busy /\ handler'[k].item = handler[k].item
    BY <1>3, <1>4 DEF Busy
  <2>2. pc' # "start" /\ (pc' # "returned" => ~ quit' /\ result' = NoError)
    BY <1>1 DEF ReceiveResult, Return, HoldsItem
  <2>. QED
    BY <1>1, <1>6, <2>1, <2>2 DEF HoldsItem
<1>. QED
  BY <1>7, <1>9, <1>10, <1>11

\* The inductive invariant of Validate and its handlers.
THEOREM Invariance == Spec => []Inv
<1>1. Inv /\ [Next]_vars => Inv'
  <2>. SUFFICES ASSUME Inv, [Next]_vars PROVE Inv'
    OBVIOUS
  <2>1. CASE UNCHANGED vars
    BY <2>1 DEF vars, Inv, TypeOK, ItemsAccounted, VerdictRight, HoldsItem, Busy, At
  <2>2. CASE Validate
    BY <2>2, StartInv, SendItemInv, ReceiveResultInv DEF Validate
  <2>3. CASE \E h \in Handlers : ValidateHandler(h)
    BY <2>3, CheckItemInv, QuitInv DEF ValidateHandler
  <2>. QED
    BY <2>1, <2>2, <2>3 DEF Next
<1>. QED
  BY InitInv, <1>1, PTL DEF Spec

(***************************************************************************)
(* Every variable of Validate and its handlers keeps its type, and the     *)
(* counters stay within the number of items.                               *)
(***************************************************************************)
THEOREM TypeCorrect == Spec => []TypeOK
BY Invariance, PTL DEF Inv

(***************************************************************************)
(* Validate returns nil if and only if every input is good, for any number *)
(* of inputs and handlers and every schedule.                              *)
(***************************************************************************)
THEOREM VerdictIsRight == Spec => []VerdictRight
BY Invariance, PTL DEF Inv

\* No item is lost between Validate and its handlers, or handed out twice.
THEOREM NoItemLost == Spec => []ItemsAccounted
BY Invariance, PTL DEF Inv
=============================================================================
