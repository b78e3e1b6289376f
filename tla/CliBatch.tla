------------------------------ MODULE CliBatch ------------------------------
(***************************************************************************)
(* "sepaqx generate" of src/cli_generate.go.  With --input a batch of       *)
(* payments is turned, one after the other, into payloads or into PNG files *)
(* named by position, and a report is printed; without it one payment is    *)
(* printed or written.  An item may fail and the others go on; a write may  *)
(* fail and leave its file untouched or torn; the process may be killed;    *)
(* and the next invocation finds what earlier ones have left at --out,      *)
(* which is a file's name for one payment and a directory's for a batch.    *)
(***************************************************************************)
EXTENDS Naturals, Sequences, FiniteSets

CONSTANTS Payment,   \* what an item asks to be paid
          None,      \* no file, no report, an input that cannot be read or parsed
          Torn,      \* an incomplete file
          Directory, \* the directory of a batch
          Batches    \* the batches that are given: sequences of inputs

\* An input: its payment and what is wrong with it, None if nothing is.
Inputs == [payment : Payment, fault : {None, "invalid", "unencodable"}]

\* The totals of a report.
Totals == [ok : BOOLEAN, total : Nat, succeeded : Nat, failed : Nat]

ASSUME BatchAssumption == /\ Batches \subseteq Seq(Inputs)
                          /\ None \notin Payment \cup Batches \cup {"invalid"}
                          /\ None \notin Inputs /\ None \notin Totals /\ None \notin Nat
                          /\ Payment \cap {Torn, Directory} = {}

Positions == UNION {DOMAIN b : b \in Batches}

VARIABLES pc,        \* idle, check, items or one
          batch,     \* the inputs of a batch
          one,       \* the input of a single payment, None in a batch
          format,    \* --format
          out,       \* --out: a path, always the same, or "-" for stdout
          place,     \* what lies at that path: a file, a directory or nothing
          file,      \* file[n]: what sepa-qr-n.png in that directory holds
          items,     \* the items of the report so far
          failures,  \* how many of them have failed
          report,    \* what has been printed: of a single payment, its payload or PNG
          exit       \* the exit status of the last invocation, or None

given == <<batch, one, format, out>>
vars == <<pc, given, place, file, items, failures, report, exit>>

Init == /\ pc = "idle"
        /\ batch = None /\ one = None /\ format = "png" /\ out = "path"
        /\ place = None
        /\ file = [n \in Positions |-> None]
        /\ items = <<>> /\ failures = 0
        /\ report = None /\ exit = None

Start(label) == /\ pc = "idle"
                /\ format' \in {"png", "json", "payload", "other"}
                /\ out' \in {"path", "-"}
                /\ items' = <<>> /\ failures' = 0
                /\ report' = None /\ exit' = None
                /\ pc' = label
                /\ UNCHANGED <<place, file>>

Invoke == /\ Start("check")
          /\ batch' \in Batches \cup {None} /\ one' = None

InvokeOne == /\ Start("one")
             /\ one' \in Inputs /\ batch' = None

Exit(status) == exit' = status /\ pc' = "idle"

\* The input cannot be read, is no batch or an empty one, or the PNGs would go
\* to stdout or to where a file lies; the directory may also refuse to be made.
Rejected == batch = None \/ batch = <<>> \/ (format = "png" /\ out = "-")
            \/ (format = "png" /\ place \notin {None, Directory})

Reject == /\ pc = "check"
          /\ Rejected \/ format = "png"
          /\ Exit(1)
          /\ UNCHANGED <<given, place, file, items, failures, report>>

Begin == /\ pc = "check"
         /\ ~Rejected
         /\ pc' = "items"
         /\ place' = IF format = "png" THEN Directory ELSE place
         /\ UNCHANGED <<given, file, items, failures, report, exit>>

-----------------------------------------------------------------------------
Position == Len(items) + 1

Input == batch[Position]

More == pc = "items" /\ Position \in DOMAIN batch

\* Fault: items are numbered by the successes before them.
ItemByCount(ok) == [index |-> Len(items) - failures, ok |-> ok]

Item(ok) == [index |-> Len(items), ok |-> ok]

Failed == /\ items' = Append(items, Item(FALSE))
          /\ failures' = failures + 1

Succeeded == items' = Append(items, Item(TRUE)) /\ UNCHANGED failures

BuildFails == /\ More
              /\ Input.fault = "invalid"
              /\ Failed
              /\ UNCHANGED <<pc, given, place, file, report, exit>>

Build == /\ More
         /\ Input.fault # "invalid"
         /\ format # "png"
         /\ Succeeded
         /\ UNCHANGED <<pc, given, place, file, report, exit>>

EncodeFails == /\ More
               /\ Input.fault = "unencodable"
               /\ format = "png"
               /\ Failed
               /\ UNCHANGED <<pc, given, place, file, report, exit>>

WriteFile == /\ More
             /\ Input.fault = None
             /\ format = "png"
             /\ file' = [file EXCEPT ![Position] = Input.payment]
             /\ Succeeded
             /\ UNCHANGED <<pc, given, place, report, exit>>

\* Fault: a write that fails is reported, but not counted.
WriteFailsUncounted ==
  /\ More
  /\ Input.fault = None
  /\ format = "png"
  /\ file' \in {file, [file EXCEPT ![Position] = Torn]}
  /\ items' = Append(items, Item(FALSE))
  /\ UNCHANGED <<pc, given, place, failures, report, exit>>

WriteFails ==
  /\ More
  /\ Input.fault = None
  /\ format = "png"
  /\ file' \in {file, [file EXCEPT ![Position] = Torn]}
  /\ Failed
  /\ UNCHANGED <<pc, given, place, report, exit>>

-----------------------------------------------------------------------------
Complete == pc = "items" /\ Position \notin DOMAIN batch

Summary == [ok        |-> failures = 0,
            total     |-> Len(items),
            succeeded |-> Len(items) - failures,
            failed    |-> failures]

\* Failures make the status 1.
Status == IF failures > 0 THEN 1 ELSE 0

\* The report is printed, whatever has failed.
Report == /\ Complete
          /\ format # "other"
          /\ report' = Summary
          /\ Exit(Status)
          /\ UNCHANGED <<given, place, file, items, failures>>

\* The format is unknown, which is found out last, or JSON cannot be printed.
NoReport == /\ Complete
            /\ format # "payload"
            /\ Exit(1)
            /\ UNCHANGED <<given, place, file, items, failures, report>>

\* Nobody looks whether the lines of payloads could be printed.
PayloadsLost == /\ Complete
                /\ format = "payload"
                /\ Exit(Status)
                /\ UNCHANGED <<given, place, file, items, failures, report>>

-----------------------------------------------------------------------------
(* A single payment.                                                        *)

OneRefused == /\ pc = "one"
              /\ \/ one.fault = "invalid" \/ format = "other"
                 \/ one.fault = "unencodable" /\ format = "png"
              /\ Exit(1)
              /\ UNCHANGED <<given, place, file, items, failures, report>>

Printable == /\ pc = "one" /\ one.fault # "invalid"
             /\ \/ format \in {"payload", "json"}
                \/ format = "png" /\ one.fault = None /\ out = "-"

PrintOne == /\ Printable
            /\ report' = one.payment
            /\ Exit(0)
            /\ UNCHANGED <<given, place, file, items, failures>>

PrintOneFails == /\ Printable
                 /\ Exit(1)
                 /\ UNCHANGED <<given, place, file, items, failures, report>>

Writable == pc = "one" /\ one.fault = None /\ format = "png" /\ out = "path"

WriteOne == /\ Writable /\ place # Directory
            /\ place' = one.payment
            /\ Exit(0)
            /\ UNCHANGED <<given, file, items, failures, report>>

\* A directory is not written to; a file may be left torn.
WriteOneFails == /\ Writable
                 /\ place' \in {place} \cup (IF place = Directory THEN {} ELSE {Torn})
                 /\ Exit(1)
                 /\ UNCHANGED <<given, file, items, failures, report>>

\* The process is killed, maybe in the middle of a write.
Dies == /\ pc # "idle"
        /\ Exit(None)
        /\ \/ UNCHANGED <<place, file>>
           \/ More /\ Input.fault = None /\ format = "png"
                /\ file' = [file EXCEPT ![Position] = Torn] /\ UNCHANGED place
           \/ Writable /\ place # Directory
                /\ place' = Torn /\ UNCHANGED file
        /\ UNCHANGED <<given, items, failures, report>>

Next == \/ Invoke \/ Reject \/ Begin
        \/ BuildFails \/ Build \/ EncodeFails \/ WriteFile \/ WriteFails
        \/ Report \/ NoReport \/ PayloadsLost
        \/ InvokeOne \/ OneRefused \/ PrintOne \/ PrintOneFails \/ WriteOne \/ WriteOneFails
        \/ Dies

Spec == Init /\ [][Next]_vars

-----------------------------------------------------------------------------
\* What is printed is what has happened: one item for each input, at its place,
\* its totals those of the items, and a payment reported as done is on disk
\* under its own number, whatever failed before or after it.  CHANGELOG.md:
\* "top-level summary fields (`ok`, `total`, `succeeded`, `failed`)".
ReportIsTrue ==
  report # None /\ one = None =>
    /\ Len(items) = Len(batch) /\ report.total = Len(batch)
    /\ \A n \in DOMAIN items : items[n].index = n - 1
    /\ report.succeeded = Cardinality({n \in DOMAIN items : items[n].ok})
    /\ report.failed = Cardinality({n \in DOMAIN items : ~items[n].ok})
    /\ report.ok <=> \A n \in DOMAIN items : items[n].ok
    /\ format = "png" => \A n \in DOMAIN items : items[n].ok => file[n] = batch[n].payment

\* CHANGELOG.md: "returns a non-zero exit code when at least one item fails,
\* while still printing full per-item results".  Status 0 means that every
\* payment has been made out, where it was asked for, and that nothing torn or
\* older lies in its place.  Payloads of a batch may yet be lost (see README.md).
SuccessIsComplete ==
  exit = 0 =>
    IF one # None
    THEN /\ one.fault # "invalid"
         /\ IF format = "png" /\ out = "path" THEN place = one.payment
            ELSE report = one.payment
    ELSE /\ report # None \/ format = "payload"
         /\ \A n \in DOMAIN batch :
              /\ batch[n].fault # "invalid"
              /\ format = "png" => place = Directory /\ file[n] = batch[n].payment
=============================================================================
