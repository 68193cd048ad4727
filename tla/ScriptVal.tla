------------------------------ MODULE ScriptVal ------------------------------
(***************************************************************************)
(* One call of txValidator.Validate: the calling goroutine hands the       *)
(* inputs of a block to a few handler goroutines over validateChan and     *)
(* takes the results from resultChan.  Both channels are unbuffered, so a  *)
(* send and its receive are one step of two goroutines; quitChan is closed *)
(* when the call returns, and never has a value.                           *)
(***************************************************************************)
EXTENDS Naturals, FiniteSets, Sequences

CONSTANTS
  NumCPU,       \* runtime.NumCPU()
  MaxInputs,    \* bound of the model: the most inputs a block has
  Errors,       \* what can be wrong with an input: the rule errors of a handler
  NoError       \* the nil error

ASSUME ScriptAssumption ==
  /\ NumCPU \in Nat
  /\ MaxInputs \in Nat
  /\ NoError \notin Errors

Outcomes == Errors \cup {NoError}

\* No more than three goroutines a processor, and at least one.
Limit == IF 3 * NumCPU = 0 THEN 1 ELSE 3 * NumCPU
Handlers == 1..Limit

VARIABLES
  items,            \* the outcome of each input to validate, in order
  pc,               \* where Validate is: "start", "select" or "returned"
  currentItem,      \* how many items have been handed out
  processedItems,   \* how many results have come back
  handler,          \* what each handler does, and with which item
  quit,             \* quitChan is closed
  result            \* what Validate returned

vars == <<items, pc, currentItem, processedItems, handler, quit, result>>

\* maxGoRoutines for the items of this call.
Started == {h \in Handlers : h <= Len(items)}

At(h, places) == handler[h].at \in places

\* Handlers that hold an item, or its result.
Busy == {h \in Handlers : At(h, {"checking", "sending"})}

NotStarted == [at |-> "none", item |-> 0]

\* checkBlockScripts and ValidateTransactionScripts collect the inputs that spend
\* something, in order; each has an outcome.
Init ==
  /\ \E n \in 0..MaxInputs : items \in [1..n -> Outcomes]
  /\ pc = "start"
  /\ currentItem = 0
  /\ processedItems = 0
  /\ handler = [h \in Handlers |-> NotStarted]
  /\ quit = FALSE
  /\ result = NoError

-----------------------------------------------------------------------------
\* The end of Validate: every way out after the start closes quitChan.
Return(err) ==
  /\ pc' = "returned"
  /\ quit' = TRUE
  /\ result' = err

\* Validate has nothing to do for a block without spending inputs.
ReturnAtOnce ==
  /\ pc = "start"
  /\ items = <<>>
  /\ pc' = "returned"
  /\ UNCHANGED <<items, currentItem, processedItems, handler, quit, result>>

StartHandlers ==
  /\ pc = "start"
  /\ items # <<>>
  /\ pc' = "select"
  /\ handler' = [h \in Handlers |->
                   IF h \in Started THEN [at |-> "ready", item |-> 0] ELSE NotStarted]
  /\ UNCHANGED <<items, currentItem, processedItems, quit, result>>

\* Variant: currentItem lags one behind.
SendLastItemAgain(h) ==
  /\ pc = "select"
  /\ currentItem < Len(items)
  /\ At(h, {"ready"})
  /\ currentItem' = currentItem + 1
  /\ handler' = [handler EXCEPT ![h] =
                   [at |-> "checking", item |-> IF currentItem = 0 THEN 1 ELSE currentItem]]
  /\ UNCHANGED <<items, pc, processedItems, quit, result>>

\* Validate sends the current item, and a handler that waits receives it.
SendItem(h) ==
  /\ pc = "select"
  /\ currentItem < Len(items)
  /\ At(h, {"ready"})
  /\ currentItem' = currentItem + 1
  /\ handler' = [handler EXCEPT ![h] = [at |-> "checking", item |-> currentItem + 1]]
  /\ UNCHANGED <<items, pc, processedItems, quit, result>>

\* A handler finds the spent output and runs the scripts; what comes out is the
\* outcome of the item.
CheckItem(h) ==
  /\ At(h, {"checking"})
  /\ handler' = [handler EXCEPT ![h].at = "sending"]
  /\ UNCHANGED <<items, pc, currentItem, processedItems, quit, result>>

\* Variant: the loop ends when every item has been handed out.
AllSent(processed) == currentItem = Len(items)

\* The loop condition, after a result was counted.
AllProcessed(processed) == processed = Len(items)

(***************************************************************************)
(* A handler sends its result and Validate receives it.  A handler with an *)
(* error is done, and so is Validate.                                      *)
(***************************************************************************)
ReceiveResult(h) ==
  LET err == items[handler[h].item]
  IN  /\ pc = "select"
      /\ At(h, {"sending"})
      /\ processedItems' = processedItems + 1
      /\ handler' = [handler EXCEPT ![h] =
                       [at |-> IF err = NoError THEN "ready" ELSE "exited", item |-> 0]]
      /\ IF err # NoError \/ AllProcessed(processedItems + 1)
         THEN Return(err)
         ELSE UNCHANGED <<pc, quit, result>>
      /\ UNCHANGED <<items, currentItem>>

\* Variant: sendResult does not listen to quitChan.
QuitWhenReady(h) ==
  /\ quit
  /\ At(h, {"ready"})
  /\ handler' = [handler EXCEPT ![h] = [at |-> "exited", item |-> 0]]
  /\ UNCHANGED <<items, pc, currentItem, processedItems, quit, result>>

(***************************************************************************)
(* A handler meets the closed quitChan where it waits.  After a result     *)
(* that nobody takes it goes round once more, and meets it again, unless   *)
(* the result was an error.                                                *)
(***************************************************************************)
Quit(h) ==
  /\ quit
  /\ \/ /\ At(h, {"ready"})
        /\ handler' = [handler EXCEPT ![h] = [at |-> "exited", item |-> 0]]
     \/ /\ At(h, {"sending"})
        /\ handler' = [handler EXCEPT ![h] =
             [at |-> IF items[handler[h].item] = NoError THEN "ready" ELSE "exited", item |-> 0]]
  /\ UNCHANGED <<items, pc, currentItem, processedItems, quit, result>>

Validate ==
  \/ ReturnAtOnce
  \/ StartHandlers
  \/ \E h \in Handlers : SendItem(h) \/ ReceiveResult(h)

ValidateHandler(h) == CheckItem(h) \/ Quit(h)

Next == Validate \/ \E h \in Handlers : ValidateHandler(h)

Spec == Init /\ [][Next]_vars

\* Every goroutine that can run does run.
FairSpec ==
  /\ Spec
  /\ WF_vars(Validate)
  /\ \A h \in Handlers : WF_vars(ValidateHandler(h))

-----------------------------------------------------------------------------
\* Type invariant; the counters never pass the number of items.
TypeOK ==
  /\ items \in Seq(Outcomes)
  /\ pc \in {"start", "select", "returned"}
  /\ currentItem \in 0..Len(items)
  /\ processedItems \in 0..Len(items)
  /\ handler \in [Handlers ->
       [at : {"none", "ready", "checking", "sending", "exited"}, item : 0..Len(items)]]
  /\ quit \in BOOLEAN
  /\ result \in Outcomes

(***************************************************************************)
(* The verdict of Validate does not depend on the schedule: it is nil if   *)
(* and only if every input that spends something is good, and the error    *)
(* returned is that of an input.                                           *)
(***************************************************************************)
VerdictRight ==
  pc = "returned" =>
    \/ result = NoError /\ \A i \in DOMAIN items : items[i] = NoError
    \/ result # NoError /\ \E i \in DOMAIN items : items[i] = result

(***************************************************************************)
(* While Validate runs, every item it handed out is with exactly one       *)
(* handler or its result has been counted, and no counted result was an    *)
(* error: the loop neither ends early nor waits for a result that nobody   *)
(* will send.                                                              *)
(***************************************************************************)
ItemsAccounted ==
  pc = "select" =>
    /\ currentItem = processedItems + Cardinality(Busy)
    /\ \A h, k \in Busy : handler[h].item = handler[k].item => h = k
    /\ \A i \in 1..currentItem :
         items[i] = NoError \/ \E h \in Busy : handler[h].item = i

(***************************************************************************)
(* Validate returns, and every goroutine it started ends after that, those *)
(* that had a result nobody took included.                                 *)
(***************************************************************************)
NoHandlerLeft ==
  <>(pc = "returned" /\ \A h \in Handlers : At(h, {"none", "exited"}))
=============================================================================
