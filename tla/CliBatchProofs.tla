--------------------------- MODULE CliBatchProofs ---------------------------
(***************************************************************************)
(* Proofs about CliBatch: for batches of any length, what is printed and    *)
(* the exit status are true.                                                *)
(*                                                                          *)
(* ReportIsTrue speaks of the end of a batch, so it is not inductive: what  *)
(* it says has to be kept item by item (Tallied, Kept), while a running     *)
(* invocation has printed nothing (Quiet).                                  *)
(***************************************************************************)
EXTENDS CliBatch, FiniteSetTheorems, SequenceTheorems, TLAPS

BatchItem == [index : Nat, ok : BOOLEAN]

TypeOK == /\ pc \in {"idle", "check", "items", "one"}
          /\ batch \in Batches \cup {None}
          /\ one \in Inputs \cup {None}
          /\ file \in [Positions -> Payment \cup {None, Torn}]
          /\ items \in Seq(BatchItem)
          /\ failures \in Nat

\* A running invocation has neither printed nor ended.
Quiet == pc # "idle" => report = None /\ exit = None

\* A batch or a single payment, as pc says; a batch has yet to begin at its check.
Mode == /\ pc = "one" => one \in Inputs
        /\ pc \in {"check", "items"} => one = None
        /\ pc = "check" => items = <<>>

FailedItems == {n \in DOMAIN items : ~items[n].ok}

\* The failures are counted and the items numbered.
Tallied == /\ failures = Cardinality(FailedItems)
           /\ \A n \in DOMAIN items : items[n].index = n - 1

\* An item that is reported as done can be made out and lies in its file.
Made(n) == /\ batch[n].fault # "invalid"
           /\ format = "png" => file[n] = batch[n].payment

Kept == pc = "items" => /\ batch \in Batches
                        /\ Len(items) <= Len(batch)
                        /\ format = "png" => place = Directory
                        /\ \A n \in DOMAIN items : items[n].ok => Made(n)

IInv == TypeOK /\ Quiet /\ Mode /\ Tallied /\ Kept /\ ReportIsTrue /\ SuccessIsComplete

-----------------------------------------------------------------------------
(* Lists of items.                                                          *)

\* Items are counted from 1 and are finitely many.
LEMMA ItemsFinite ==
  ASSUME TypeOK
  PROVE  /\ Len(items) \in Nat /\ DOMAIN items = 1..Len(items)
         /\ IsFiniteSet(DOMAIN items) /\ Cardinality(DOMAIN items) = Len(items)
         /\ FailedItems \subseteq DOMAIN items /\ IsFiniteSet(FailedItems)
         /\ Cardinality(FailedItems) <= Len(items)
<1>1. items \in Seq(BatchItem)
  BY DEF TypeOK
<1>2. Len(items) \in Nat /\ DOMAIN items = 1..Len(items)
  BY <1>1, LenProperties
<1>3. IsFiniteSet(DOMAIN items) /\ Cardinality(DOMAIN items) = Len(items)
  <2>1. /\ IsFiniteSet(1..Len(items))
        /\ Cardinality(1..Len(items)) = IF 1 > Len(items) THEN 0 ELSE Len(items) - 1 + 1
    BY <1>2, 1 \in Int, Len(items) \in Int, FS_Interval
  <2>2. QED
    BY <1>2, <2>1
<1>4. FailedItems \in SUBSET DOMAIN items
  BY DEF FailedItems
<1>5. IsFiniteSet(FailedItems) /\ Cardinality(FailedItems) <= Cardinality(DOMAIN items)
  BY <1>3, <1>4, FS_Subset
<1>6. QED
  BY <1>2, <1>3, <1>4, <1>5

\* The items that have not failed are the rest.
LEMMA Succeeding ==
  ASSUME TypeOK, Tallied
  PROVE  /\ failures <= Len(items)
         /\ Cardinality({n \in DOMAIN items : items[n].ok}) = Len(items) - failures
         /\ Cardinality({n \in DOMAIN items : ~items[n].ok}) = failures
         /\ failures = 0 <=> \A n \in DOMAIN items : items[n].ok
<1>1. {n \in DOMAIN items : items[n].ok} = DOMAIN items \ FailedItems
  BY DEF FailedItems
<1>2. DOMAIN items \cap FailedItems = FailedItems
  BY ItemsFinite
<1>3. Cardinality(DOMAIN items \ FailedItems)
        = Cardinality(DOMAIN items) - Cardinality(FailedItems)
  BY <1>2, ItemsFinite, FS_Difference, ZenonT(40)
<1>4. failures = Cardinality(FailedItems)
  BY DEF Tallied
<1>5. failures = 0 <=> FailedItems = {}
  BY <1>4, ItemsFinite, FS_EmptySet
<1>6. FailedItems = {} <=> \A n \in DOMAIN items : items[n].ok
  BY DEF FailedItems
<1>7. QED
  BY <1>1, <1>3, <1>4, <1>5, <1>6, ItemsFinite DEF FailedItems

\* One more item keeps the tally.
LEMMA OneMore ==
  ASSUME TypeOK, Tallied, NEW done \in BOOLEAN,
         items' = Append(items, Item(done)),
         failures' = IF done THEN failures ELSE failures + 1
  PROVE  /\ items' \in Seq(BatchItem) /\ failures' \in Nat
         /\ Tallied'
         /\ Len(items') = Position
         /\ \A n \in DOMAIN items' : items'[n].ok =>
              \/ n \in DOMAIN items /\ items[n].ok
              \/ n = Position /\ done
<1>1. items \in Seq(BatchItem) /\ Len(items) \in Nat /\ DOMAIN items = 1..Len(items)
  BY ItemsFinite DEF TypeOK
<1>2. Item(done) \in BatchItem /\ Item(done).ok = done /\ Item(done).index = Len(items)
  BY <1>1 DEF Item, BatchItem
<1>3. /\ items' \in Seq(BatchItem)
      /\ Len(items') = Position
      /\ \A n \in 1..Len(items) : items'[n] = items[n]
      /\ items'[Position] = Item(done)
  BY <1>1, <1>2, AppendProperties DEF Position
<1>4. DOMAIN items' = 1..Position
  BY <1>3, LenProperties
<1>5. Position = Len(items) + 1 /\ Position \notin DOMAIN items
  BY <1>1 DEF Position
<1>6. FailedItems' = IF done THEN FailedItems ELSE FailedItems \cup {Position}
  BY <1>1, <1>2, <1>3, <1>4, <1>5 DEF FailedItems
<1>7. Position \notin FailedItems
  BY <1>5 DEF FailedItems
<1>8. Cardinality(FailedItems') = IF done THEN failures ELSE failures + 1
  BY <1>6, <1>7, ItemsFinite, FS_AddElement DEF Tallied
<1>9. \A n \in DOMAIN items' : items'[n].index = n - 1
  BY <1>1, <1>2, <1>3, <1>4, <1>5 DEF Tallied
<1>10. failures' \in Nat
  BY DEF TypeOK
<1>11. QED
  BY <1>1, <1>2, <1>3, <1>4, <1>5, <1>8, <1>9, <1>10 DEF Tallied

\* A batch is a list of inputs whose places are numbers of files.
LEMMA BatchIsList ==
  ASSUME NEW b \in Batches
  PROVE  /\ b \in Seq(Inputs) /\ Len(b) \in Nat /\ DOMAIN b = 1..Len(b)
         /\ DOMAIN b \subseteq Positions
         /\ \A n \in DOMAIN b : b[n] \in Inputs
<1>1. b \in Seq(Inputs)
  BY BatchAssumption
<1>2. QED
  BY <1>1, LenProperties DEF Positions

-----------------------------------------------------------------------------
(* The invariant.                                                           *)

LEMMA InitInvariant == Init => IInv
<1> SUFFICES ASSUME Init PROVE IInv
  OBVIOUS
<1>1. items = <<>> /\ Len(items) = 0 /\ DOMAIN items = {}
  BY DEF Init
<1>2. TypeOK
  BY <1>1, EmptySeq DEF Init, TypeOK
<1>3. Tallied
  <2>1. FailedItems = {}
    BY <1>1 DEF FailedItems
  <2>2. QED
    BY <1>1, <2>1, FS_EmptySet DEF Init, Tallied
<1>4. exit # 0
  BY BatchAssumption DEF Init
<1>5. Quiet /\ Mode /\ Kept /\ ReportIsTrue /\ SuccessIsComplete
  BY <1>4 DEF Init, Quiet, Mode, Kept, ReportIsTrue, SuccessIsComplete
<1>6. QED
  BY <1>2, <1>3, <1>5 DEF IInv

\* While nothing is printed and no status is given, nothing can be untrue.
LEMMA NothingSaid ==
  ASSUME report = None, exit = None
  PROVE  ReportIsTrue /\ SuccessIsComplete
BY BatchAssumption DEF ReportIsTrue, SuccessIsComplete

LEMMA StartPreserves ==
  ASSUME IInv, Invoke \/ InvokeOne
  PROVE  IInv'
<1>1. /\ items' = <<>> /\ DOMAIN items' = {} /\ failures' = 0
      /\ report' = None /\ exit' = None
      /\ UNCHANGED <<place, file>>
  BY DEF Invoke, InvokeOne, Start
<1>2. \/ pc' = "check" /\ batch' \in Batches \cup {None} /\ one' = None
      \/ pc' = "one" /\ one' \in Inputs /\ batch' = None
  BY DEF Invoke, InvokeOne, Start
<1>3. TypeOK'
  BY <1>1, <1>2, EmptySeq DEF IInv, TypeOK
<1>4. Tallied'
  <2>1. FailedItems' = {}
    BY <1>1 DEF FailedItems
  <2>2. QED
    BY <1>1, <2>1, FS_EmptySet DEF Tallied
<1>5. Quiet' /\ Mode' /\ Kept'
  BY <1>1, <1>2 DEF Quiet, Mode, Kept
<1>6. ReportIsTrue' /\ SuccessIsComplete'
  BY <1>1, BatchAssumption DEF ReportIsTrue, SuccessIsComplete
<1>7. QED
  BY <1>3, <1>4, <1>5, <1>6 DEF IInv

LEMMA BeginPreserves ==
  ASSUME IInv, Begin
  PROVE  IInv'
<1>1. /\ pc = "check" /\ pc' = "items"
      /\ UNCHANGED <<batch, one, format, file, items, failures, report, exit>>
      /\ place' = IF format = "png" THEN Directory ELSE place
      /\ batch # None
  BY DEF Begin, given, Rejected
<1>2. TypeOK'
  BY <1>1 DEF IInv, TypeOK
<1>3. Quiet' /\ Mode' /\ Tallied'
  BY <1>1 DEF IInv, Quiet, Mode, Tallied, FailedItems
<1>4. ReportIsTrue' /\ SuccessIsComplete'
  BY <1>1, BatchAssumption DEF IInv, Quiet, ReportIsTrue, SuccessIsComplete
<1>5. Kept'
  <2>1. items' = <<>> /\ Len(items') = 0 /\ DOMAIN items' = {}
    BY <1>1 DEF IInv, Mode
  <2>2. batch' \in Batches
    BY <1>1 DEF IInv, TypeOK
  <2>3. 0 <= Len(batch')
    BY <2>2, BatchIsList
  <2>4. QED
    BY <1>1, <2>1, <2>2, <2>3 DEF Kept
<1>6. QED
  BY <1>2, <1>3, <1>4, <1>5 DEF IInv

\* The steps that end an invocation with a status that is not 0, and print nothing.
LEMMA GivingUpPreserves ==
  ASSUME IInv, pc # "idle", pc' = "idle", exit' # 0,
         UNCHANGED <<given, items, failures, report>>,
         file' \in [Positions -> Payment \cup {None, Torn}]
  PROVE  IInv'
<1>1. TypeOK'
  BY DEF IInv, TypeOK, given
<1>2. Quiet' /\ Mode' /\ Tallied' /\ Kept'
  BY DEF IInv, Quiet, Mode, Tallied, FailedItems, Kept
<1>3. ReportIsTrue' /\ SuccessIsComplete'
  BY DEF IInv, Quiet, ReportIsTrue, SuccessIsComplete
<1>4. QED
  BY <1>1, <1>2, <1>3 DEF IInv

\* One more item, done or not.
LEMMA ItemPreserves ==
  ASSUME IInv, More, NEW done \in BOOLEAN,
         items' = Append(items, Item(done)),
         failures' = IF done THEN failures ELSE failures + 1,
         UNCHANGED <<pc, given, place, report, exit>>,
         file' \in [Positions -> Payment \cup {None, Torn}],
         \A n \in Positions \ {Position} : file'[n] = file[n],
         done => /\ Input.fault # "invalid"
                 /\ format = "png" => file'[Position] = Input.payment
  PROVE  IInv'
<1>1. /\ items' \in Seq(BatchItem) /\ failures' \in Nat
      /\ Tallied'
      /\ Len(items') = Position
      /\ \A n \in DOMAIN items' : items'[n].ok =>
           \/ n \in DOMAIN items /\ items[n].ok
           \/ n = Position /\ done
  BY OneMore DEF IInv
<1>2. /\ pc = "items" /\ Position \in DOMAIN batch
      /\ UNCHANGED <<batch, one, format, out>>
  BY DEF More, given
<1>3. /\ batch \in Batches /\ Len(items) <= Len(batch)
      /\ format = "png" => place = Directory
      /\ \A n \in DOMAIN items : items[n].ok => Made(n)
  BY <1>2 DEF IInv, Kept
<1>4. /\ Len(items) \in Nat /\ DOMAIN items = 1..Len(items)
      /\ Len(batch) \in Nat /\ DOMAIN batch = 1..Len(batch) /\ DOMAIN batch \subseteq Positions
  BY <1>3, ItemsFinite, BatchIsList DEF IInv
<1>5. TypeOK'
  BY <1>1, <1>2 DEF IInv, TypeOK
<1>6. Kept'
  <2>1. \A n \in DOMAIN items : n \in Positions \ {Position}
    BY <1>3, <1>4 DEF Position
  <2>2. \A n \in DOMAIN items : items[n].ok => Made(n)'
    BY <1>2, <1>3, <2>1 DEF Made
  <2>3. \A n : n = Position /\ done => Made(n)'
    BY <1>2 DEF Made, Input
  <2>4. Position <= Len(batch)
    BY <1>2, <1>4
  <2>5. QED
    BY <1>1, <1>2, <1>3, <2>2, <2>3, <2>4 DEF Kept
<1>7. Quiet' /\ Mode'
  BY <1>2 DEF IInv, Quiet, Mode
<1>8. ReportIsTrue' /\ SuccessIsComplete'
  BY <1>2, BatchAssumption DEF IInv, Quiet, ReportIsTrue, SuccessIsComplete
<1>9. QED
  BY <1>1, <1>5, <1>6, <1>7, <1>8 DEF IInv

-----------------------------------------------------------------------------
(* The end of a batch and of a single payment.                              *)

\* When all the inputs have had their turn, the report is true, and no failure
\* means that all are made.
LEMMA AtTheEnd ==
  ASSUME IInv, Complete
  PROVE  /\ Len(items) = Len(batch) /\ DOMAIN items = DOMAIN batch
         /\ failures = 0 => \A n \in DOMAIN batch : Made(n)
         /\ format = "png" => place = Directory
<1>1. /\ batch \in Batches /\ Len(items) <= Len(batch)
      /\ format = "png" => place = Directory
      /\ \A n \in DOMAIN items : items[n].ok => Made(n)
  BY DEF IInv, Kept, Complete
<1>2. /\ Len(items) \in Nat /\ DOMAIN items = 1..Len(items)
      /\ Len(batch) \in Nat /\ DOMAIN batch = 1..Len(batch)
  BY <1>1, ItemsFinite, BatchIsList DEF IInv
<1>3. Len(items) = Len(batch)
  <2>1. ~(Len(items) + 1 \in 1..Len(batch))
    BY <1>2 DEF Complete, Position
  <2>2. \A k, l \in Nat : k <= l /\ ~(k + 1 \in 1..l) => k = l
    OBVIOUS
  <2>3. QED
    BY <1>1, <1>2, <2>1, <2>2, Zenon
<1>4. Len(items) = Len(batch) /\ DOMAIN items = DOMAIN batch
  BY <1>2, <1>3
<1>5. failures = 0 => \A n \in DOMAIN items : items[n].ok
  BY Succeeding DEF IInv
<1>6. QED
  BY <1>1, <1>4, <1>5

LEMMA ReportPreserves ==
  ASSUME IInv, Report
  PROVE  IInv'
<1>1. /\ Complete /\ pc' = "idle"
      /\ report' = Summary /\ exit' = Status
      /\ UNCHANGED <<batch, one, format, out, place, file, items, failures>>
  BY DEF Report, Exit, given
<1>2. one = None
  BY <1>1 DEF IInv, Mode, Complete
<1>3. TypeOK' /\ Quiet' /\ Mode' /\ Tallied' /\ Kept'
  BY <1>1 DEF IInv, TypeOK, Quiet, Mode, Tallied, FailedItems, Kept
<1>4. /\ Len(items) = Len(batch) /\ DOMAIN items = DOMAIN batch
      /\ failures = 0 => \A n \in DOMAIN batch : Made(n)
      /\ format = "png" => place = Directory
      /\ \A n \in DOMAIN items : items[n].ok => Made(n)
  BY <1>1, AtTheEnd DEF IInv, Kept, Complete
<1>5. /\ failures \in Nat /\ failures <= Len(items) /\ Len(items) \in Nat
      /\ Cardinality({n \in DOMAIN items : items[n].ok}) = Len(items) - failures
      /\ Cardinality({n \in DOMAIN items : ~items[n].ok}) = failures
      /\ failures = 0 <=> \A n \in DOMAIN items : items[n].ok
  BY Succeeding, ItemsFinite DEF IInv, TypeOK
<1>6. Summary \in Totals
  BY <1>5 DEF Summary, Totals
<1>7. report' # None
  BY <1>1, <1>6, BatchAssumption
<1>8. ReportIsTrue'
  <2>1. /\ report'.ok = (failures = 0) /\ report'.total = Len(items)
        /\ report'.succeeded = Len(items) - failures /\ report'.failed = failures
    BY <1>1 DEF Summary
  <2>2. \A n \in DOMAIN items : items[n].index = n - 1
    BY DEF IInv, Tallied
  <2>3. format = "png" => \A n \in DOMAIN items : items[n].ok => file[n] = batch[n].payment
    BY <1>4 DEF Made
  <2>4. QED
    BY <1>1, <1>4, <1>5, <2>1, <2>2, <2>3 DEF ReportIsTrue
<1>9. SuccessIsComplete'
  <2>1. exit' = 0 => failures = 0
    BY <1>1, <1>5 DEF Status
  <2>2. QED
    BY <1>1, <1>2, <1>4, <1>7, <2>1 DEF SuccessIsComplete, Made
<1>10. QED
  BY <1>3, <1>8, <1>9 DEF IInv

LEMMA PayloadsLostPreserves ==
  ASSUME IInv, PayloadsLost
  PROVE  IInv'
<1>1. /\ Complete /\ pc = "items" /\ pc' = "idle"
      /\ format = "payload" /\ exit' = Status
      /\ UNCHANGED <<batch, one, format, out, place, file, items, failures, report>>
  BY DEF PayloadsLost, Exit, given, Complete
<1>2. one = None /\ report = None
  BY <1>1 DEF IInv, Mode, Quiet
<1>3. TypeOK' /\ Quiet' /\ Mode' /\ Tallied' /\ Kept'
  BY <1>1 DEF IInv, TypeOK, Quiet, Mode, Tallied, FailedItems, Kept
<1>4. ReportIsTrue'
  BY <1>1, <1>2 DEF ReportIsTrue
<1>5. SuccessIsComplete'
  <2>1. exit' = 0 => failures = 0
    BY <1>1 DEF Status, IInv, TypeOK
  <2>2. failures = 0 => \A n \in DOMAIN batch : Made(n)
    BY <1>1, AtTheEnd
  <2>3. QED
    BY <1>1, <1>2, <2>1, <2>2 DEF SuccessIsComplete, Made
<1>6. QED
  BY <1>3, <1>4, <1>5 DEF IInv

\* A single payment that is printed or written.
LEMMA OnePreserves ==
  ASSUME IInv, PrintOne \/ WriteOne
  PROVE  IInv'
<1>1. /\ pc = "one" /\ pc' = "idle" /\ exit' = 0
      /\ UNCHANGED <<batch, one, format, out, file, items, failures>>
      /\ one \in Inputs /\ one # None
      /\ one.fault # "invalid"
  BY BatchAssumption DEF PrintOne, Printable, WriteOne, Writable, Exit, given, IInv, Mode, Inputs
<1>2. /\ PrintOne => report' = one.payment /\ ~(format = "png" /\ out = "path")
      /\ WriteOne => place' = one.payment /\ format = "png" /\ out = "path"
  BY DEF PrintOne, Printable, WriteOne, Writable
<1>3. TypeOK' /\ Quiet' /\ Mode' /\ Tallied' /\ Kept'
  BY <1>1 DEF IInv, TypeOK, Quiet, Mode, Tallied, FailedItems, Kept
<1>4. ReportIsTrue'
  BY <1>1 DEF ReportIsTrue
<1>5. SuccessIsComplete'
  BY <1>1, <1>2 DEF SuccessIsComplete
<1>6. QED
  BY <1>3, <1>4, <1>5 DEF IInv

-----------------------------------------------------------------------------
(* Every step preserves the invariant.                                      *)

LEMMA NextPreserves == IInv /\ [Next]_vars => IInv'
<1> SUFFICES ASSUME IInv, [Next]_vars PROVE IInv'
  OBVIOUS
<1>1. CASE Invoke \/ InvokeOne
  BY <1>1, StartPreserves
<1>2. CASE Begin
  BY <1>2, BeginPreserves
<1>3. CASE Reject \/ NoReport \/ OneRefused \/ PrintOneFails \/ WriteOneFails
  <2>1. /\ pc # "idle" /\ pc' = "idle" /\ exit' = 1
        /\ UNCHANGED <<given, file, items, failures, report>>
    BY <1>3 DEF Reject, NoReport, Complete, OneRefused, PrintOneFails, Printable,
                WriteOneFails, Writable, Exit
  <2>2. file' \in [Positions -> Payment \cup {None, Torn}]
    BY <2>1 DEF IInv, TypeOK
  <2>3. QED
    BY <2>1, <2>2, GivingUpPreserves
<1>4. CASE Dies
  <2>1. /\ pc # "idle" /\ pc' = "idle" /\ exit' = None
        /\ UNCHANGED <<given, items, failures, report>>
    BY <1>4 DEF Dies, Exit
  <2>2. exit' # 0
    BY <2>1, BatchAssumption
  <2>3. file' \in [Positions -> Payment \cup {None, Torn}]
    BY <1>4 DEF Dies, IInv, TypeOK
  <2>4. QED
    BY <2>1, <2>2, <2>3, GivingUpPreserves
<1>5. CASE BuildFails \/ EncodeFails
  <2>1. /\ More /\ file' = file
        /\ items' = Append(items, Item(FALSE)) /\ failures' = failures + 1
        /\ UNCHANGED <<pc, given, place, report, exit>>
    BY <1>5 DEF BuildFails, EncodeFails, Failed
  <2>2. file' \in [Positions -> Payment \cup {None, Torn}]
    BY <2>1 DEF IInv, TypeOK
  <2>3. QED
    BY <2>1, <2>2, ItemPreserves
<1>6. CASE WriteFails
  <2>1. /\ More
        /\ items' = Append(items, Item(FALSE)) /\ failures' = failures + 1
        /\ UNCHANGED <<pc, given, place, report, exit>>
        /\ file' \in {file, [file EXCEPT ![Position] = Torn]}
    BY <1>6 DEF WriteFails, Failed
  <2>2. /\ file' \in [Positions -> Payment \cup {None, Torn}]
        /\ \A n \in Positions \ {Position} : file'[n] = file[n]
    BY <2>1 DEF IInv, TypeOK
  <2>3. QED
    BY <2>1, <2>2, ItemPreserves
<1>7. CASE Build
  <2>1. /\ More /\ Input.fault # "invalid" /\ format # "png" /\ file' = file
        /\ items' = Append(items, Item(TRUE)) /\ failures' = failures
        /\ UNCHANGED <<pc, given, place, report, exit>>
    BY <1>7 DEF Build, Succeeded
  <2>2. file' \in [Positions -> Payment \cup {None, Torn}]
    BY <2>1 DEF IInv, TypeOK
  <2>3. QED
    BY <2>1, <2>2, ItemPreserves
<1>8. CASE WriteFile
  <2>1. /\ More /\ Input.fault # "invalid"
        /\ file' = [file EXCEPT ![Position] = Input.payment]
        /\ items' = Append(items, Item(TRUE)) /\ failures' = failures
        /\ UNCHANGED <<pc, given, place, report, exit>>
    BY <1>8, BatchAssumption DEF WriteFile, Succeeded
  <2>2. batch \in Batches /\ Position \in DOMAIN batch
    BY <2>1 DEF IInv, Kept, More
  <2>3. Position \in Positions /\ Input.payment \in Payment
    BY <2>2, BatchIsList DEF Input, Inputs
  <2>4. /\ file' \in [Positions -> Payment \cup {None, Torn}]
        /\ \A n \in Positions \ {Position} : file'[n] = file[n]
        /\ file'[Position] = Input.payment
    BY <2>1, <2>3 DEF IInv, TypeOK
  <2>5. QED
    BY <2>1, <2>4, ItemPreserves
<1>9. CASE Report
  BY <1>9, ReportPreserves
<1>10. CASE PayloadsLost
  BY <1>10, PayloadsLostPreserves
<1>11. CASE PrintOne \/ WriteOne
  BY <1>11, OnePreserves
<1>12. CASE UNCHANGED vars
  <2>1. UNCHANGED <<pc, batch, one, format, out, place, file, items, failures, report, exit>>
    BY <1>12 DEF vars, given
  <2>2. TypeOK' /\ Quiet' /\ Mode' /\ Tallied' /\ Kept'
    BY <2>1 DEF IInv, TypeOK, Quiet, Mode, Tallied, FailedItems, Kept, Made
  <2>3. ReportIsTrue' /\ SuccessIsComplete'
    BY <2>1 DEF IInv, ReportIsTrue, SuccessIsComplete
  <2>4. QED
    BY <2>2, <2>3 DEF IInv
<1>13. QED
  BY <1>1, <1>2, <1>3, <1>4, <1>5, <1>6, <1>7, <1>8, <1>9, <1>10, <1>11, <1>12 DEF Next

LEMMA Invariance == Spec => []IInv
<1>1. QED
  BY InitInvariant, NextPreserves, PTL DEF Spec

\* The report of a batch of any length is what has happened to its items.
THEOREM ReportsAreTrue == Spec => []ReportIsTrue
<1>1. IInv => ReportIsTrue
  BY DEF IInv
<1>2. QED
  BY <1>1, Invariance, PTL

\* Status 0 means that everything has been made out, whatever earlier
\* invocations have left, however many there were.
THEOREM SuccessesAreComplete == Spec => []SuccessIsComplete
<1>1. IInv => SuccessIsComplete
  BY DEF IInv
<1>2. QED
  BY <1>1, Invariance, PTL
=============================================================================
