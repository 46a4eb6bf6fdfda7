-------------------------- MODULE DeliveryProofs --------------------------
(*************************************************************************)
(* Proofs that what has been recorded is delivered: the script copies    *)
(* the report that its own run has recorded, for any options and any     *)
(* number of runs; a report has every record that had been written when  *)
(* the recording was cut off and no other one, for any number of samples *)
(* and of fields, and whatever the samples hold; and the tree made of    *)
(* the kernel's configuration has every setting and the nesting of the   *)
(* file, for any number of items and any depth of the menus.             *)
(*************************************************************************)
EXTENDS EksScript, DataFile, KernelConfig, SequenceTheorems, SumLemmas

-----------------------------------------------------------------------------
\* The script.  The only thing to know of the pod is that from Apply on it is as
\* this run wants it; what was there before does not matter.

\* Between Apply and the copy the pod has the options of this run, and is its
\* own when none was there.
PodInv == pc \in {"wait", "describe", "logs", "cleanup", "poll", "copy"} /\ pod # NoPod
             => /\ pod.options = options
                /\ found = NoPod => pod.by = run

\* A report has been copied exactly from the delete on.
CopiedInv == /\ pc \notin {"delete", "ended"} => copied = Nothing
             /\ pc = "delete" => copied # Nothing
             /\ pc # "ended" => status = "none" /\ run # 0

ScriptInv == TypeOK /\ PodInv /\ CopiedInv /\ RightReport /\ SuccessMeansCopied

-----------------------------------------------------------------------------
LEMMA InitInv == Init => ScriptInv
  BY ScriptValues DEF Init, ScriptInv, TypeOK, PodInv, CopiedInv, RightReport,
     SuccessMeansCopied, Places

\* A step of the pod, which leaves the script alone and can only change its phase.
LEMMA PodStep == ScriptInv /\ Pod => ScriptInv'
  <1> SUFFICES ASSUME ScriptInv, Pod PROVE ScriptInv'
    OBVIOUS
  <1> USE DEF ScriptInv
  <1>1. /\ UNCHANGED script
        /\ pod # NoPod
        /\ \/ pod' = NoPod
           \/ \E p \in Phases : pod' = [pod EXCEPT !.phase = p]
    BY DEF Pod, PodGoesOn, PodFails, PodOver, PodLost, Phases
  <1>2. pod \in Pods
    BY <1>1 DEF TypeOK
  <1>3. pod' = NoPod \/ (pod' \in Pods /\ pod'.options = pod.options /\ pod'.by = pod.by)
    BY <1>1, <1>2 DEF Pods
  <1>4. TypeOK'
    BY <1>1, <1>3 DEF TypeOK, script
  <1>5. PodInv'
    BY <1>1, <1>3 DEF PodInv, script
  <1>6. CopiedInv' /\ RightReport' /\ SuccessMeansCopied'
    BY <1>1 DEF CopiedInv, RightReport, SuccessMeansCopied, script
  <1> QED BY <1>4, <1>5, <1>6

\* The start of a run forgets what the run before has done.
LEMMA StartStep == ScriptInv /\ Start => ScriptInv'
  BY ScriptValues DEF Start, ScriptInv, TypeOK, Places, PodInv, CopiedInv, RightReport,
     SuccessMeansCopied

\* The commands that leave the pod and what was found and copied alone.
LEMMA PlainStep ==
  ScriptInv /\ (\/ Check \/ RemoveList \/ TopPods \/ WaitReady \/ Describe \/ ShowLogs
                \/ Poll \/ CopyFails \/ DeleteFails \/ Interrupt)
    => ScriptInv'
  <1> SUFFICES ASSUME ScriptInv,
                      \/ Check \/ RemoveList \/ TopPods \/ WaitReady \/ Describe
                      \/ ShowLogs \/ Poll \/ CopyFails \/ DeleteFails \/ Interrupt
               PROVE ScriptInv'
    OBVIOUS
  <1> USE DEF ScriptInv, GoTo, Exit
  <1>1. /\ UNCHANGED <<run, options, found, copied, pod>>
        /\ allpods' \in BOOLEAN
        /\ pc # "ended"
        /\ \/ pc' = "ended" /\ status' \in {"failed", "interrupted"}
           \/ /\ status' = status
              /\ \/ pc = "check" /\ pc' = "list"
                 \/ pc = "list" /\ pc' = "top"
                 \/ pc = "top" /\ pc' = "apply"
                 \/ pc = "wait" /\ pc' \in {"poll", "describe"}
                 \/ pc = "describe" /\ pc' = "logs"
                 \/ pc = "logs" /\ pc' = "cleanup"
                 \/ pc = "poll" /\ pc' = "copy"
    BY DEF Check, RemoveList, TopPods, WaitReady, Describe, ShowLogs, Poll, CopyFails,
       DeleteFails, Interrupt, TypeOK
  <1>2. TypeOK'
    BY <1>1 DEF TypeOK, Places
  <1>3. PodInv'
    <2>1. CASE pc' = "ended"
      BY <2>1 DEF PodInv
    <2>2. CASE pc' # "ended"
      BY <1>1, <2>2 DEF PodInv
    <2> QED BY <2>1, <2>2
  <1>4. CopiedInv'
    BY <1>1 DEF CopiedInv
  <1>5. RightReport' /\ SuccessMeansCopied'
    BY <1>1 DEF RightReport, SuccessMeansCopied, CopiedInv
  <1> QED BY <1>2, <1>3, <1>4, <1>5

\* A pod that Apply makes is this run's; one it finds unchanged has its options.
LEMMA ApplyStep == ScriptInv /\ (Apply \/ ApplyFails) => ScriptInv'
  <1> SUFFICES ASSUME ScriptInv, Apply \/ ApplyFails PROVE ScriptInv'
    OBVIOUS
  <1> USE DEF ScriptInv, GoTo, Exit
  <1>1. /\ pc = "apply" /\ found' = pod
        /\ UNCHANGED <<run, options, allpods, copied>>
        /\ \/ pc' = "wait" /\ status' = status
           \/ pc' = "ended" /\ status' = "failed"
    BY DEF Apply, ApplyFails
  <1>2. run \in 1..MaxRuns
    BY <1>1, ScriptValues DEF TypeOK, CopiedInv
  <1>3. CASE pod = NoPod /\ pod' = [phase |-> "pending", options |-> options, by |-> run]
             /\ pc' = "wait" /\ status' = status
    <2>1. pod' \in Pods
      BY <1>2, <1>3 DEF Pods, Phases, TypeOK
    <2>2. TypeOK'
      BY <1>1, <1>3, <2>1 DEF TypeOK, Places
    <2> QED
      BY <1>1, <1>3, <2>2 DEF PodInv, CopiedInv, RightReport, SuccessMeansCopied
  <1>4. CASE pod' = pod /\ (pc' = "wait" => Unchanged)
    <2>1. TypeOK'
      BY <1>1, <1>4 DEF TypeOK, Places
    <2>2. PodInv'
      BY <1>1, <1>4 DEF PodInv, Unchanged
    <2> QED
      BY <1>1, <1>4, <2>1, <2>2 DEF CopiedInv, RightReport, SuccessMeansCopied
  <1> QED BY <1>3, <1>4 DEF Apply, ApplyFails

LEMMA CleanupStep == ScriptInv /\ Cleanup => ScriptInv'
  BY DEF Cleanup, Exit, ScriptInv, TypeOK, Places, PodInv, CopiedInv, RightReport,
     SuccessMeansCopied

\* What is copied is what the pod has recorded.
LEMMA CopyStep == ScriptInv /\ Copy => ScriptInv'
  <1> SUFFICES ASSUME ScriptInv, Copy PROVE ScriptInv'
    OBVIOUS
  <1> USE DEF ScriptInv, GoTo
  <1>1. pod \in Pods
    BY DEF Copy, TypeOK
  <1>2. copied' \in Reports
    BY <1>1 DEF Copy, Pods, Reports
  <1>3. copied' # Nothing
    BY <1>2, ScriptValues
  <1>4. TypeOK'
    BY <1>2 DEF Copy, TypeOK, Places
  <1>5. RightReport'
    BY DEF Copy, PodInv, RightReport
  <1> QED
    BY <1>3, <1>4, <1>5 DEF Copy, PodInv, CopiedInv, SuccessMeansCopied

LEMMA DeleteStep == ScriptInv /\ Delete => ScriptInv'
  BY DEF Delete, Exit, ScriptInv, TypeOK, Places, PodInv, CopiedInv, RightReport,
     SuccessMeansCopied

LEMMA StepInv == ScriptInv /\ [Next]_vars => ScriptInv'
  <1> SUFFICES ASSUME ScriptInv, [Next]_vars PROVE ScriptInv'
    OBVIOUS
  <1>1. CASE Start
    BY <1>1, StartStep
  <1>2. CASE Pod
    BY <1>2, PodStep
  <1>3. CASE \/ Check \/ RemoveList \/ TopPods \/ WaitReady \/ Describe \/ ShowLogs
             \/ Poll \/ CopyFails \/ DeleteFails \/ Interrupt
    BY <1>3, PlainStep
  <1>4. CASE Apply \/ ApplyFails
    BY <1>4, ApplyStep
  <1>5. CASE Cleanup
    BY <1>5, CleanupStep
  <1>6. CASE Copy
    BY <1>6, CopyStep
  <1>7. CASE Delete
    BY <1>7, DeleteStep
  <1>8. CASE UNCHANGED vars
    BY <1>8 DEF vars, script, ScriptInv, TypeOK, PodInv, CopiedInv, RightReport,
       SuccessMeansCopied
  <1> QED
    BY <1>1, <1>2, <1>3, <1>4, <1>5, <1>6, <1>7, <1>8 DEF Next, Script, Terminated

LEMMA AlwaysInv == Spec => []ScriptInv
  BY InitInv, StepInv, PTL DEF Spec

-----------------------------------------------------------------------------
\* The values script and cluster keep are of their kinds.
THEOREM ScriptTypes == Spec => []TypeOK
  <1>1. ScriptInv => TypeOK
    BY DEF ScriptInv
  <1> QED BY AlwaysInv, <1>1, PTL

\* The report a run copies has the options of that run, and is its own when no
\* pod was there before.
THEOREM ReportIsRight == Spec => []RightReport
  <1>1. ScriptInv => RightReport
    BY DEF ScriptInv
  <1> QED BY AlwaysInv, <1>1, PTL

\* A run that ends well has copied a report and leaves no pod.
THEOREM SuccessIsCopied == Spec => []SuccessMeansCopied
  <1>1. ScriptInv => SuccessMeansCopied
    BY DEF ScriptInv
  <1> QED BY AlwaysInv, <1>1, PTL

-----------------------------------------------------------------------------
\* The data file.  Arithmetic.

\* A record is as long as its fields.
LEMMA Longer ==
    ASSUME NEW c \in Nat, NEW F \in Nat
    PROVE  c * F \in Nat /\ (c + 1) * F = c * F + F
    OBVIOUS

\* Records that are complete can be counted by dividing.
LEMMA Whole ==
    ASSUME NEW F \in Nat \ {0}, NEW c \in Nat, NEW L \in Nat,
           c * F <= L, L < (c + 1) * F
    PROVE  L \div F = c
  <1> DEFINE q == L \div F
  <1>1. q \in Nat /\ q * F <= L /\ L < (q + 1) * F
      OBVIOUS
  <1> HIDE DEF q
  <1>2. \A m, n \in Nat : m < n => (m + 1) * F <= n * F
      OBVIOUS
  <1>3. ~(q < c) /\ ~(c < q)
      BY <1>1, <1>2
  <1>4. q = c
      BY <1>1, <1>3
  <1> QED BY <1>4 DEF q

-----------------------------------------------------------------------------
\* The inductive invariant of the data file.

Kinds == {"meminfo", "interrupts", "stats", "settings", "system"}

FileTypes == /\ data \in Kinds
             /\ taken \in Seq(Samples)
             /\ cells \in Seq(Nat)
             /\ completed \in Nat
             /\ step \in {"record", "read", "ask", "shown"}

\* The cells are those of the completed records and of a part of one more, which
\* is there if a sample has been taken and not yet written.
Cut == /\ completed * Fields <= Len(cells)
       /\ Len(cells) < (completed + 1) * Fields
       /\ Len(taken) = IF Written THEN completed ELSE completed + 1

\* The last field of a completed record is of its own sample.
InPlace == \A c \in 1..completed : cells[c * Fields] = c

\* What is recorded of a sample.
Collected(s) == CASE data = "settings" -> Collectable(s)
                  [] data = "system"   -> Identified(s)
                  [] OTHER             -> s

\* What was read is what was taken, and what was answered is the answer.
AllRead == IF step \in {"ask", "shown"}
           THEN /\ values = [i \in 1..completed |-> Processed(Collected(taken[i]))]
                /\ \A k \in DOMAIN answers : completed > 0 /\ k \in Offered /\ answers[k] = Answer(k)
           ELSE DOMAIN answers = {}

IInv == FileTypes /\ Cut /\ InPlace /\ AllRead

LEMMA InitIInv == FileInit => IInv
  <1> SUFFICES ASSUME FileInit PROVE IInv
      OBVIOUS
  <1>1. FileTypes
      BY DEF FileInit, FileTypes, Kinds
  <1>2. Cut
      BY FileValues DEF FileInit, Cut, Written
  <1>3. InPlace /\ AllRead
      BY DEF FileInit, InPlace, AllRead
  <1> QED BY <1>1, <1>2, <1>3 DEF IInv

LEMMA SamplesStay == data' = data => Samples' = Samples
  BY DEF Samples

LEMMA TakeIInv == IInv /\ Take => IInv'
  <1> SUFFICES ASSUME IInv, Take PROVE IInv'
      OBVIOUS
  <1>1. PICK s \in Samples : taken' = Append(taken, s)
      BY DEF Take
  <1>2. Samples' = Samples
      BY SamplesStay DEF Take
  <1>3. FileTypes'
      BY <1>1, <1>2 DEF IInv, FileTypes, Take
  <1>4. Cut'
    <2>1. /\ completed \in Nat /\ Len(taken) = completed /\ Len(taken') = completed + 1
          /\ completed' = completed /\ Len(cells) = completed * Fields /\ cells' = cells
        BY <1>1 DEF IInv, FileTypes, Cut, Take, Written
    <2>2. (completed + 1) * Fields = completed * Fields + Fields /\ completed * Fields \in Nat
        BY <2>1, Longer, FileValues
    <2>3. ~Written'
        BY <2>1, <2>2, FileValues DEF Written
    <2> QED BY <2>1, <2>2, <2>3, FileValues DEF Cut
  <1>5. InPlace' /\ AllRead'
      BY DEF IInv, Take, InPlace, AllRead
  <1> QED BY <1>3, <1>4, <1>5 DEF IInv

\* A completed record is in the file.
LEMMA RecordsAre ==
    ASSUME IInv, NEW c \in 1..completed
    PROVE  c * Fields \in 1..Len(cells) /\ c \in 1..Len(taken)
  <1>1. completed \in Nat /\ Fields \in Nat \ {0} /\ Len(cells) \in Nat /\ completed * Fields <= Len(cells)
      BY FileValues DEF IInv, FileTypes, Cut
  <1>2. \A m, n \in Nat : m <= n => m * Fields <= n * Fields
      BY ONLY <1>1
  <1>3. c \in Nat /\ c <= completed /\ c >= 1
      BY <1>1
  <1>4. c * Fields <= completed * Fields /\ 1 * Fields <= c * Fields
      BY <1>1, <1>2, <1>3
  <1>5. c * Fields \in Nat /\ completed * Fields \in Nat /\ 1 * Fields = Fields
      BY ONLY <1>1, <1>3
  <1>6. c * Fields \in 1..Len(cells)
      BY ONLY <1>1, <1>4, <1>5
  <1>7. completed <= Len(taken) /\ Len(taken) \in Nat
      BY <1>1 DEF IInv, Cut, FileTypes
  <1> QED BY <1>1, <1>6, <1>7

LEMMA WriteIInv == IInv /\ WriteField => IInv'
  <1> SUFFICES ASSUME IInv, WriteField PROVE IInv'
      OBVIOUS
  <1> DEFINE whole == completed * Fields
  <1>1. /\ completed \in Nat /\ Len(taken) = completed + 1 /\ taken' = taken
        /\ Len(cells) \in Nat /\ Len(cells') = Len(cells) + 1
        /\ whole <= Len(cells) /\ Len(cells) < (completed + 1) * Fields
      BY DEF IInv, FileTypes, Cut, WriteField
  <1>2. /\ whole \in Nat /\ (completed + 1) * Fields = whole + Fields
        /\ (completed + 2) * Fields = whole + Fields + Fields
    <2>1. \A c \in Nat : c * Fields \in Nat /\ (c + 1) * Fields = c * Fields + Fields
        BY Longer, FileValues
    <2>2. completed + 1 \in Nat /\ completed + 2 = (completed + 1) + 1
        BY <1>1
    <2> QED BY <1>1, <2>1, <2>2
  <1>3. completed' = IF Len(cells') = whole + Fields THEN completed + 1 ELSE completed
      BY <1>1, <1>2 DEF WriteField
  <1>4. FileTypes'
    <2>1. Samples' = Samples
        BY SamplesStay DEF WriteField
    <2> QED BY <1>1, <1>3, <2>1 DEF IInv, FileTypes, WriteField
  <1>5. Cut'
    <2>1. Written' <=> Len(cells') = whole + Fields
        BY <1>1, <1>2 DEF Written
    <2>2. CASE Len(cells') = whole + Fields
      <3>1. /\ completed' = completed + 1 /\ completed' + 1 = completed + 2
            /\ Len(taken') = completed'
          BY <1>1, <1>3, <2>2
      <3> QED BY <1>1, <1>2, <2>1, <2>2, <3>1, FileValues DEF Cut
    <2>3. CASE Len(cells') # whole + Fields
      <3>1. completed' = completed /\ Len(cells') < whole + Fields /\ whole <= Len(cells')
          BY <1>1, <1>2, <1>3, <2>3, FileValues
      <3> QED BY <1>1, <1>2, <2>1, <2>3, <3>1 DEF Cut
    <2> QED BY <2>2, <2>3
  <1>6. InPlace'
    <2> SUFFICES ASSUME NEW c \in 1..completed' PROVE cells'[c * Fields] = c
        BY FileValues DEF InPlace
    <2>1. /\ cells'[Len(cells) + 1] = completed + 1
          /\ \A i \in 1..Len(cells) : cells'[i] = cells[i]
        BY <1>1 DEF IInv, FileTypes, WriteField
    <2>2. CASE c \in 1..completed
      <3>1. c * Fields \in 1..Len(cells)
          BY <2>2, RecordsAre
      <3> QED BY <2>1, <2>2, <3>1 DEF IInv, InPlace
    <2>3. CASE c \notin 1..completed
      <3>1. c = completed + 1 /\ Len(cells') = whole + Fields
          BY <1>1, <1>3, <2>3
      <3>2. c * Fields = Len(cells) + 1
          BY <1>1, <1>2, <3>1
      <3> QED BY <2>1, <3>1, <3>2
    <2> QED BY <2>2, <2>3
  <1>7. AllRead'
      BY DEF IInv, WriteField, AllRead
  <1> QED BY <1>4, <1>5, <1>6, <1>7 DEF IInv

\* Once the recording is over the file stays what it is.
LEMMA FileStays ==
    ASSUME IInv, UNCHANGED <<data, taken, completed, cells>>,
           step' \in {"record", "read", "ask", "shown"}
    PROVE  FileTypes' /\ Cut' /\ InPlace'
  <1>1. Samples' = Samples
      BY SamplesStay
  <1> QED BY <1>1 DEF IInv, FileTypes, Cut, Written, InPlace

LEMMA ReadIInv == IInv /\ Read => IInv'
  <1> SUFFICES ASSUME IInv, Read PROVE IInv'
      OBVIOUS
  <1>1. FileTypes' /\ Cut' /\ InPlace'
      BY FileStays DEF Read
  <1>2. Readable = completed
    <2>1. /\ Fields \in Nat \ {0} /\ completed \in Nat /\ Len(cells) \in Nat
          /\ completed * Fields <= Len(cells) /\ Len(cells) < (completed + 1) * Fields
        BY FileValues DEF IInv, FileTypes, Cut
    <2> QED BY <2>1, Whole DEF Readable
  <1>3. \A i \in 1..completed : Raw(i) = Collected(taken[i])
    <2> SUFFICES ASSUME NEW i \in 1..completed PROVE Raw(i) = Collected(taken[i])
        OBVIOUS
    <2>1. cells[i * Fields] = i
        BY DEF IInv, InPlace
    <2> QED BY <2>1 DEF Raw, Collected
  <1>4. values' = [i \in 1..completed |-> Processed(Collected(taken[i]))]
    <2>1. values' = [i \in 1..completed |-> Processed(Raw(i))]
        BY <1>2 DEF Read
    <2> HIDE DEF Processed, Raw, Collected
    <2> QED BY <1>3, <2>1
  <1>5. DOMAIN answers = {} /\ answers' = answers
      BY DEF IInv, AllRead, Read
  <1>6. /\ data' = data /\ taken' = taken /\ completed' = completed /\ step' = "ask"
      BY DEF Read
  <1>7. \A i : (Processed(Collected(taken[i])))' = Processed(Collected(taken[i]))
      BY <1>6 DEF Processed, Collected
  <1>8. AllRead'
      BY <1>4, <1>5, <1>6, <1>7 DEF AllRead
  <1> QED BY <1>1, <1>8 DEF IInv

\* What is offered and answered is of the values read.
LEMMA AnswersStay ==
    ASSUME UNCHANGED <<data, values>>
    PROVE  Offered' = Offered /\ \A k : Answer(k)' = Answer(k)
  <1>1. \A k : Held(k)' = Held(k)
      BY DEF Held
  <1> QED BY <1>1 DEF Offered, MemOffered, IrqOffered, StatOffered, Answer, MemValues, IrqValues,
                      Times, SettingValues, SystemValues

LEMMA AllReadStays ==
    ASSUME IInv, UNCHANGED <<data, taken, completed, values, answers>>,
           step \in {"ask", "shown"}, step' \in {"ask", "shown"}
    PROVE  AllRead'
  <1>1. Offered' = Offered /\ \A k : Answer(k)' = Answer(k)
      BY AnswersStay
  <1>2. \A i : (Processed(Collected(taken[i])))' = Processed(Collected(taken[i]))
      BY DEF Processed, Collected
  <1> HIDE DEF Processed, Collected
  <1> QED BY <1>1, <1>2 DEF IInv, AllRead

\* The first record is there when a key is asked for.
LEMMA AskIInv == IInv /\ Ask => IInv'
  <1> SUFFICES ASSUME IInv, Ask PROVE IInv'
      OBVIOUS
  <1>1. step = "ask" /\ step' = "ask" /\ UNCHANGED <<data, taken, completed, cells, values>>
      BY DEF Ask, SomeValues
  <1>2. FileTypes' /\ Cut' /\ InPlace'
      BY <1>1, FileStays
  <1>3. PICK k \in Offered : answers' = [j \in DOMAIN answers \cup {k} |->
                                            IF j = k THEN Answer(k) ELSE answers[j]]
      BY DEF Ask, SomeValues
  <1>4. Offered' = Offered /\ \A j : Answer(j)' = Answer(j)
      BY <1>1, AnswersStay
  <1>5. \A i : (Processed(Collected(taken[i])))' = Processed(Collected(taken[i]))
      BY <1>1 DEF Processed, Collected
  <1>6. values = [i \in 1..completed |-> Processed(Collected(taken[i]))]
      BY <1>1 DEF IInv, AllRead
  <1>7. completed > 0
    <2>1. values # <<>> /\ completed \in Nat
        BY DEF Ask, SomeValues, IInv, FileTypes
    <2> HIDE DEF Processed, Collected
    <2>2. completed = 0 => values = <<>>
        BY <1>6
    <2> QED BY <2>1, <2>2
  <1> HIDE DEF Processed, Collected
  <1>8. \A j \in DOMAIN answers' : j \in Offered /\ answers'[j] = Answer(j)
      BY <1>1, <1>3 DEF IInv, AllRead
  <1>9. AllRead'
      BY <1>1, <1>4, <1>5, <1>6, <1>7, <1>8 DEF AllRead
  <1> QED BY <1>2, <1>9 DEF IInv

LEMMA StepIInv == IInv /\ [FileNext]_fileVars => IInv'
  <1> SUFFICES ASSUME IInv, [FileNext]_fileVars PROVE IInv'
      OBVIOUS
  <1>1. CASE Over
    <2>1. FileTypes' /\ Cut' /\ InPlace'
        BY <1>1, FileStays DEF Over
    <2>2. AllRead'
        BY <1>1 DEF IInv, Over, AllRead
    <2> QED BY <2>1, <2>2 DEF IInv
  <1>2. CASE Shown
    <2>1. FileTypes' /\ Cut' /\ InPlace'
        BY <1>2, FileStays DEF Shown
    <2>2. AllRead'
        BY <1>2, AllReadStays DEF Shown
    <2> QED BY <2>1, <2>2 DEF IInv
  <1>3. CASE UNCHANGED fileVars
    <2>1. /\ UNCHANGED <<data, taken, completed, cells, values, answers>> /\ step' = step
          /\ step \in {"record", "read", "ask", "shown"}
        BY <1>3 DEF fileVars, IInv, FileTypes
    <2>2. FileTypes' /\ Cut' /\ InPlace'
        BY <2>1, FileStays
    <2>3. CASE step \in {"ask", "shown"}
        BY <2>1, <2>2, <2>3, AllReadStays DEF IInv
    <2>4. CASE step \notin {"ask", "shown"}
      <3>1. AllRead'
          BY <2>1, <2>4 DEF IInv, AllRead
      <3> QED BY <2>2, <3>1 DEF IInv
    <2> QED BY <2>3, <2>4
  <1>4. CASE FileTerminated
      BY <1>3, <1>4 DEF FileTerminated
  <1> QED BY <1>1, <1>2, <1>3, <1>4, TakeIInv, WriteIInv, ReadIInv, AskIInv DEF FileNext

LEMMA SpecIInv == FileSpec => []IInv
    BY InitIInv, StepIInv, PTL DEF FileSpec

\* Wherever a recording was cut off, the report has all records that had been
\* written, none of the one that had not, and gets to its end (write_to_file,
\* process_raw_data and get_data of data.rs and visualizer.rs).
THEOREM WrittenRecordsAreRead == FileSpec => []WrittenIsRead
  <1>1. IInv => WrittenIsRead
    <2> SUFFICES ASSUME IInv PROVE WrittenIsRead
        OBVIOUS
    <2>1. completed \in Nat /\ step # "panicked"
        BY DEF IInv, FileTypes
    <2>2. ASSUME step \in {"ask", "shown"} PROVE Len(values) = completed
      <3>1. values = [i \in 1..completed |-> Processed(Collected(taken[i]))]
          BY <2>2 DEF IInv, AllRead
      <3> HIDE DEF Processed, Collected
      <3> QED BY <2>1, <3>1
    <2> QED BY <2>1, <2>2 DEF WrittenIsRead
  <1> QED BY <1>1, SpecIInv, PTL

-----------------------------------------------------------------------------
\* Numbers in their order.

Rank(S, x) == Cardinality({y \in S : y <= x})

LEMMA RankIs ==
    ASSUME NEW S \in SUBSET Nat, IsFiniteSet(S)
    PROVE  /\ \A x \in S : Rank(S, x) \in 1..Cardinality(S)
           /\ \A x, y \in S : Rank(S, x) = Rank(S, y) => x = y
           /\ \A n \in 1..Cardinality(S) : \E x \in S : Rank(S, x) = n
  <1> DEFINE upTo(x) == {y \in S : y <= x}
             f == [x \in S |-> Rank(S, x)]
             N == Cardinality(S)
  <1>1. N \in Nat
      BY FS_CardinalityType
  <1>2. \A x \in S : upTo(x) \in SUBSET S /\ x \in upTo(x)
    <2>1. \A x \in S : x <= x
        OBVIOUS
    <2> QED BY <2>1
  <1>3. \A x \in S : Rank(S, x) = Cardinality(upTo(x))
      BY DEF Rank
  <1>4. ASSUME NEW x \in S, NEW y \in S, x < y PROVE upTo(x) \in SUBSET upTo(y) /\ y \notin upTo(x)
    <2>1. x \in Nat /\ y \in Nat /\ \A z \in S : z \in Nat
        OBVIOUS
    <2>2. \A z \in S : z <= x => z <= y
        BY <1>4, <2>1
    <2>3. ~(y <= x)
        BY <1>4, <2>1
    <2> QED BY <2>2, <2>3
  <1> HIDE DEF upTo
  <1>5. \A x \in S : Rank(S, x) \in 1..N
    <2> SUFFICES ASSUME NEW x \in S PROVE Rank(S, x) \in 1..N
        OBVIOUS
    <2>1. IsFiniteSet(upTo(x)) /\ Cardinality(upTo(x)) <= N
        BY <1>2, FS_Subset
    <2>2. Cardinality(upTo(x)) \in Nat /\ Cardinality(upTo(x)) # 0
        BY <1>2, <2>1, FS_CardinalityType, FS_EmptySet
    <2> HIDE DEF N
    <2> QED BY <1>1, <1>3, <2>1, <2>2
  <1>6. ASSUME NEW x \in S, NEW y \in S, x < y PROVE Rank(S, x) # Rank(S, y)
    <2>1. upTo(x) \in SUBSET upTo(y) /\ upTo(x) # upTo(y)
        BY <1>2, <1>4, <1>6
    <2>2. IsFiniteSet(upTo(y))
        BY <1>2, FS_Subset
    <2> QED BY <1>3, <2>1, <2>2, FS_Subset
  <1>7. \A x, y \in S : Rank(S, x) = Rank(S, y) => x = y
    <2>1. \A x, y \in S : x < y \/ y < x \/ x = y
        OBVIOUS
    <2> QED BY <1>6, <2>1
  <1>8. f \in Injection(S, 1..N)
    <2>1. f \in [S -> 1..N] /\ \A x \in S : f[x] = Rank(S, x)
        BY <1>5
    <2> HIDE DEF f, N
    <2> QED BY <1>7, <2>1 DEF Injection, IsInjective
  <1>9. IsFiniteSet(1..N) /\ Cardinality(1..N) = N
    <2>1. 1 \in Int /\ N \in Int /\ (1 > N => N = 0) /\ N - 1 + 1 = N
        BY <1>1
    <2> HIDE DEF N
    <2> QED BY <2>1, FS_Interval
  <1> HIDE DEF f
  <1>10. f \in Surjection(S, 1..N)
      BY <1>8, <1>9, FS_Injection
  <1> USE DEF f
  <1>11. \A n \in 1..N : \E x \in S : Rank(S, x) = n
      BY <1>10 DEF Surjection
  <1> QED BY <1>5, <1>7, <1>11

LEMMA AscendingIs ==
    ASSUME NEW S \in SUBSET Nat, IsFiniteSet(S)
    PROVE  /\ DOMAIN Ascending(S) = 1..Cardinality(S) /\ Len(Ascending(S)) = Cardinality(S)
           /\ \A n \in DOMAIN Ascending(S) : Ascending(S)[n] \in S /\ Rank(S, Ascending(S)[n]) = n
           /\ Range(Ascending(S)) = S
           /\ Ascending(S) \in [1..Cardinality(S) -> S]
  <1> DEFINE N == Cardinality(S)
             a == Ascending(S)
  <1>1. N \in Nat
      BY FS_CardinalityType
  <1>2. a = [n \in 1..N |-> CHOOSE x \in S : Rank(S, x) = n]
      BY DEF Ascending, Rank
  <1>3. DOMAIN a = 1..N /\ Len(a) = N
      BY <1>1, <1>2
  <1>4. \A n \in 1..N : a[n] \in S /\ Rank(S, a[n]) = n
    <2> SUFFICES ASSUME NEW n \in 1..N PROVE a[n] \in S /\ Rank(S, a[n]) = n
        OBVIOUS
    <2>1. a[n] = CHOOSE x \in S : Rank(S, x) = n
        BY <1>2
    <2>2. \E x \in S : Rank(S, x) = n
        BY RankIs
    <2> HIDE DEF a
    <2> QED BY <2>1, <2>2, Zenon
  <1>5. Range(a) = S
    <2>1. ASSUME NEW x \in S PROVE \E n \in 1..N : a[n] = x
      <3>1. Rank(S, x) \in 1..N
          BY RankIs
      <3>2. a[Rank(S, x)] \in S /\ Rank(S, a[Rank(S, x)]) = Rank(S, x)
          BY <1>4, <3>1
      <3>3. \A y, z \in S : Rank(S, y) = Rank(S, z) => y = z
          BY RankIs
      <3> HIDE DEF a, N
      <3>4. a[Rank(S, x)] = x
          BY <3>2, <3>3
      <3> QED BY <3>1, <3>4
    <2>2. Range(a) = {a[n] : n \in 1..N}
        BY <1>3 DEF Range
    <2> HIDE DEF a, N
    <2> QED BY <1>4, <2>1, <2>2
  <1>6. a \in [1..N -> S]
    <2>1. \A n \in 1..N : (CHOOSE x \in S : Rank(S, x) = n) \in S
        BY <1>2, <1>4
    <2> HIDE DEF a, N
    <2> QED BY <1>2, <2>1
  <1> QED BY <1>3, <1>4, <1>5, <1>6

\* All of them are in their own places.
LEMMA AscendingAll ==
    ASSUME NEW n \in Nat
    PROVE  Ascending(1..n) = [i \in 1..n |-> i]
  <1> DEFINE S == 1..n
             a == Ascending(S)
  <1>1. S \in SUBSET Nat /\ IsFiniteSet(S) /\ Cardinality(S) = n
    <2>1. 1 \in Int /\ n \in Int /\ (1 > n => n = 0) /\ n - 1 + 1 = n
        OBVIOUS
    <2>2. IsFiniteSet(1..n) /\ Cardinality(1..n) = n
        BY <2>1, FS_Interval
    <2> QED BY <2>2
  <1>2. DOMAIN a = 1..n /\ \A i \in 1..n : a[i] \in S /\ Rank(S, a[i]) = i
    <2> HIDE DEF S
    <2> QED BY <1>1, AscendingIs
  <1>3. \A i \in 1..n : Rank(S, i) = i
    <2> SUFFICES ASSUME NEW i \in 1..n PROVE Rank(S, i) = i
        OBVIOUS
    <2>1. {y \in S : y <= i} = 1..i
        OBVIOUS
    <2>2. Cardinality(1..i) = i
      <3>1. 1 \in Int /\ i \in Int /\ ~(1 > i) /\ i - 1 + 1 = i
          OBVIOUS
      <3> QED BY <3>1, FS_Interval
    <2> QED BY <2>1, <2>2 DEF Rank
  <1>4. \A i \in 1..n : a[i] = i
      BY <1>2, <1>3
  <1>5. a \in [1..n -> S]
    <2> HIDE DEF S
    <2> QED BY <1>1, AscendingIs
  <1> HIDE DEF a, S
  <1> QED BY <1>1, <1>2, <1>4, <1>5 DEF a, S

-----------------------------------------------------------------------------
\* What is answered.

LEMMA ReadIs ==
    ASSUME IInv, NEW k \in DOMAIN answers
    PROVE  /\ completed \in Nat \ {0} /\ DOMAIN values = 1..completed /\ Len(values) = completed
           /\ \A i \in 1..completed : taken[i] \in Samples /\ values[i] = Processed(Collected(taken[i]))
           /\ k \in Offered /\ answers[k] = Answer(k)
  <1>1. /\ values = [i \in 1..completed |-> Processed(Collected(taken[i]))]
        /\ completed > 0 /\ k \in Offered /\ answers[k] = Answer(k)
      BY DEF IInv, AllRead
  <1>2. completed \in Nat /\ taken \in Seq(Samples)
      BY DEF IInv, FileTypes
  <1>3. \A i \in 1..completed : i \in 1..Len(taken)
      BY RecordsAre
  <1>4. \A i \in 1..completed : taken[i] \in Samples
    <2> HIDE DEF Samples
    <2> QED BY <1>2, <1>3
  <1> HIDE DEF Processed, Collected, Samples, Answer, Offered
  <1> QED BY <1>1, <1>2, <1>4

LEMMA Multiplied ==
    ASSUME NEW n \in Nat
    PROVE  (n * Kilo) \div Kilo = n /\ 0 \div Kilo = 0
  <1>1. Kilo \in Nat \ {0}
      BY FileValues
  <1>2. n * Kilo \in Nat /\ n * Kilo < (n + 1) * Kilo
      BY <1>1
  <1>3. (n * Kilo) \div Kilo = n
      BY <1>1, <1>2, Whole
  <1>4. 0 * Kilo = 0 /\ 0 < (0 + 1) * Kilo
      BY <1>1
  <1>5. 0 \div Kilo = 0
      BY <1>1, <1>4, Whole
  <1> QED BY <1>3, <1>5

LEMMA MeminfoIs ==
    ASSUME IInv, data = "meminfo", NEW k \in DOMAIN answers, k \notin CountedKeys
    PROVE  answers[k] = [i \in 1..completed |-> IF k \in DOMAIN taken[i] THEN taken[i][k] ELSE 0]
  <1>1. k \in MemKeys
      BY ReadIs DEF Offered, MemOffered
  <1>2. answers[k] = [i \in 1..completed |-> values[i][k] \div Kilo]
      BY ReadIs DEF Answer, MemValues
  <1>3. ASSUME NEW i \in 1..completed
        PROVE  values[i][k] \div Kilo = IF k \in DOMAIN taken[i] THEN taken[i][k] ELSE 0
    <2>1. taken[i] \in MemSamples /\ values[i] = InBytes(taken[i])
        BY ReadIs DEF Samples, Processed, Collected
    <2>2. PICK S \in SUBSET OptionalKeys : taken[i] \in [MemKeys \ S -> Numbers]
        BY <2>1 DEF MemSamples
    <2>3. k \in DOMAIN taken[i] => taken[i][k] \in Nat
        BY <2>2, FileValues DEF Numbers
    <2>4. values[i][k] = IF k \notin DOMAIN taken[i] THEN 0 ELSE taken[i][k] * Kilo
        BY <1>1, <2>1 DEF InBytes
    <2>5. CASE k \in DOMAIN taken[i]
        BY <2>3, <2>4, <2>5, Multiplied
    <2>6. CASE k \notin DOMAIN taken[i]
      <3>1. 0 \div Kilo = 0
          BY Multiplied
      <3> QED BY <2>4, <2>6, <3>1
    <2> QED BY <2>5, <2>6
  <1> QED BY <1>2, <1>3

\* The counts of a line are those printed, each for its CPU.
LEMMA LineIs ==
    ASSUME NEW s \in IrqSamples, NEW l
    PROVE  {<<CpuOfColumn(s, i), s.columns[l][i]>> : i \in 1..Len(s.header)} =
           {<<c, Printed(s, l, c)>> : c \in Range(s.header)}
  <1>1. PICK C \in (SUBSET CpuNumbers) \ {{}} : s.header = Ascending(C)
      BY DEF IrqSamples
  <1>2. C \in SUBSET Nat /\ IsFiniteSet(C)
      BY FileValues, FS_Subset
  <1> DEFINE h == Ascending(C)
             N == Cardinality(C)
             col == s.columns[l]
  <1>3. /\ DOMAIN h = 1..N /\ Len(h) = N /\ Range(h) = C
        /\ \A n \in 1..N : h[n] \in C /\ Rank(C, h[n]) = n
    <2>1. /\ DOMAIN h = 1..N /\ Len(h) = N /\ Range(h) = C
          /\ \A n \in DOMAIN h : h[n] \in C /\ Rank(C, h[n]) = n
        BY <1>2, AscendingIs
    <2> HIDE DEF h, N
    <2> QED BY <2>1
  <1>4. \A c \in C : \E n \in 1..N : h[n] = c
    <2> HIDE DEF h
    <2> QED BY <1>3 DEF Range
  <1>5. \A c : Printed(s, l, c) = col[Rank(C, c)]
    <2>1. Range(s.header) = C
        BY <1>1, <1>3
    <2> QED BY <2>1 DEF Printed, Rank
  <1>6. \A n \in 1..N : Printed(s, l, h[n]) = col[n]
    <2> HIDE DEF h, col, N
    <2> QED BY <1>3, <1>5
  <1>7. s.header = h
      BY <1>1
  <1> HIDE DEF h, col, N
  <1>8. {<<CpuOfColumn(s, i), s.columns[l][i]>> : i \in 1..Len(s.header)} =
        {<<h[i], col[i]>> : i \in 1..N}
      BY <1>3, <1>7 DEF CpuOfColumn, col
  <1>9. {<<h[i], col[i]>> : i \in 1..N} = {<<c, Printed(s, l, c)>> : c \in C}
      BY <1>3, <1>4, <1>6
  <1> QED BY <1>3, <1>7, <1>8, <1>9

LEMMA InterruptsAre ==
    ASSUME IInv, data = "interrupts", NEW k \in DOMAIN answers
    PROVE  LET has == Ascending({i \in 1..completed : k = TotalLine \/ k \in DOMAIN taken[i].columns})
           IN /\ DOMAIN answers[k] = DOMAIN has
              /\ k # TotalLine => \A n \in DOMAIN has :
                   LET s == taken[has[n]]
                   IN answers[k][n] = {<<c, Printed(s, k, c)>> : c \in Range(s.header)}
  <1> DEFINE S == {i \in 1..completed : k = TotalLine \/ k \in DOMAIN taken[i].columns}
             has == Ascending(S)
  <1>1. /\ completed \in Nat /\ DOMAIN values = 1..completed
        /\ \A i \in 1..completed : taken[i] \in IrqSamples /\ values[i] = Lines(taken[i])
        /\ answers[k] = Held(k)
      BY ReadIs DEF Samples, Processed, Collected, Answer, IrqValues
  <1>2. \A i \in 1..completed :
            /\ DOMAIN values[i] = DOMAIN taken[i].columns \cup {TotalLine}
            /\ k # TotalLine /\ k \in DOMAIN taken[i].columns =>
                   values[i][k] = {<<CpuOfColumn(taken[i], j), taken[i].columns[k][j]>> :
                                       j \in 1..Len(taken[i].header)}
      BY <1>1 DEF Lines
  <1>3. {i \in DOMAIN values : k \in DOMAIN values[i]} = S
      BY <1>1, <1>2
  <1>4. answers[k] = [n \in DOMAIN has |-> values[has[n]][k]]
      BY <1>1, <1>3 DEF Held
  <1>5. \A n \in DOMAIN has : has[n] \in S
    <2>1. S \in SUBSET Nat /\ IsFiniteSet(S)
      <3>1. IsFiniteSet(1..completed) /\ S \in SUBSET (1..completed)
          BY <1>1, FS_Interval
      <3> HIDE DEF S
      <3>2. IsFiniteSet(S)
          BY ONLY <3>1, FS_Subset
      <3>3. S \in SUBSET Nat
        <4>1. \A i \in 1..completed : i \in Nat
            BY <1>1
        <4> QED BY ONLY <3>1, <4>1
      <3> QED BY <3>2, <3>3
    <2> HIDE DEF S
    <2>2. \A n \in DOMAIN Ascending(S) : (Ascending(S))[n] \in S
        BY <2>1, AscendingIs
    <2> QED BY <2>2
  <1>6. ASSUME k # TotalLine, NEW n \in DOMAIN has
        PROVE  answers[k][n] = {<<c, Printed(taken[has[n]], k, c)>> : c \in Range(taken[has[n]].header)}
    <2> DEFINE i == has[n]
    <2>1. i \in 1..completed /\ k \in DOMAIN taken[i].columns
        BY <1>5, <1>6
    <2>2. answers[k][n] = values[i][k]
        BY <1>4, <1>6
    <2> HIDE DEF i, has
    <2>3. values[i][k] = {<<CpuOfColumn(taken[i], j), taken[i].columns[k][j]>> :
                              j \in 1..Len(taken[i].header)}
        BY <1>2, <1>6, <2>1
    <2>4. taken[i] \in IrqSamples
        BY <1>1, <2>1
    <2>5. values[i][k] = {<<c, Printed(taken[i], k, c)>> : c \in Range(taken[i].header)}
        BY <2>3, <2>4, LineIs
    <2> QED BY <2>2, <2>5 DEF i
  <1>7. DOMAIN answers[k] = DOMAIN has
      BY <1>4
  <1> QED BY <1>6, <1>7

LEMMA StatsAre ==
    ASSUME IInv, data = "stats", NEW k \in DOMAIN answers
    PROVE  /\ answers[k].collect = [i \in 1..completed |-> taken[i][<<k, "collect">>]]
           /\ k # WholeRound =>
                answers[k].print = [i \in 1..completed |-> taken[i][<<k, "print">>]]
  <1>1. /\ completed \in Nat \ {0} /\ DOMAIN values = 1..completed
        /\ \A i \in 1..completed : DOMAIN values[i] = Measured /\ values[i] = taken[i]
        /\ answers[k] = [collect |-> Held(<<k, "collect">>), print |-> Held(<<k, "print">>)]
      BY ReadIs DEF Samples, StatSamples, Processed, Collected, Answer, Times
  <1>2. k = WholeRound \/ k \in Collectors
    <2>1. k \in {WholeRound} \cup {m[1] : m \in DOMAIN values[1]}
        BY ReadIs DEF Offered, StatOffered
    <2>2. 1 \in 1..completed
        BY <1>1
    <2>3. DOMAIN values[1] = Measured
        BY <1>1, <2>2
    <2> QED BY <2>1, <2>3 DEF Measured
  <1>3. ASSUME NEW m \in Measured PROVE Held(m) = [i \in 1..completed |-> taken[i][m]]
    <2>1. {i \in DOMAIN values : m \in DOMAIN values[i]} = 1..completed
        BY <1>1
    <2>2. Ascending(1..completed) = [i \in 1..completed |-> i]
        BY <1>1, AscendingAll
    <2>3. Held(m) = [n \in 1..completed |-> values[n][m]]
      <3> DEFINE A == Ascending({i \in DOMAIN values : m \in DOMAIN values[i]})
      <3>1. Held(m) = [n \in DOMAIN A |-> values[A[n]][m]]
          BY DEF Held
      <3>2. A = [i \in 1..completed |-> i]
          BY <2>1, <2>2
      <3> HIDE DEF A
      <3> QED BY ONLY <3>1, <3>2
    <2> QED BY <1>1, <2>3
  <1>4. <<k, "collect">> \in Measured /\ (k # WholeRound => <<k, "print">> \in Measured)
      BY <1>2 DEF Measured
  <1>5. /\ answers[k].collect = Held(<<k, "collect">>)
        /\ answers[k].print = Held(<<k, "print">>)
      BY <1>1
  <1>6. answers[k].collect = [i \in 1..completed |-> taken[i][<<k, "collect">>]]
    <2> DEFINE m == <<k, "collect">>
    <2>1. Held(m) = [i \in 1..completed |-> taken[i][m]]
      <3>1. m \in Measured
          BY <1>4
      <3> HIDE DEF m
      <3> QED BY <3>1, <1>3
    <2> QED BY <1>5, <2>1
  <1>7. ASSUME k # WholeRound
        PROVE  answers[k].print = [i \in 1..completed |-> taken[i][<<k, "print">>]]
    <2> DEFINE m == <<k, "print">>
    <2>1. Held(m) = [i \in 1..completed |-> taken[i][m]]
      <3>1. m \in Measured
          BY <1>4, <1>7
      <3> HIDE DEF m
      <3> QED BY <3>1, <1>3
    <2> QED BY <1>5, <2>1
  <1> QED BY <1>6, <1>7

LEMMA SettingsAre ==
    ASSUME IInv, data = "settings", NEW k \in DOMAIN answers
    PROVE  answers[k] = [j \in DOMAIN taken[1] \ NotCollected |-> taken[1][j]]
  <1>1. 1 \in 1..completed
      BY ReadIs
  <1>2. values[1] = Collectable(taken[1])
      BY <1>1, ReadIs DEF Processed, Collected
  <1>3. answers[k] = values[1]
      BY ReadIs DEF Answer, SettingValues
  <1> QED BY <1>2, <1>3 DEF Collectable

LEMMA SystemIs ==
    ASSUME IInv, data = "system", NEW k \in DOMAIN answers
    PROVE  /\ \A j \in HostKeys : answers[k][j] = taken[1][j]
           /\ \/ \A j \in InstanceKeys \ Hidden : answers[k][j] = Unknown
              \/ /\ InstanceKeys \subseteq DOMAIN taken[1]
                 /\ \A j \in InstanceKeys \ Hidden : answers[k][j] = taken[1][j]
  <1>1. 1 \in 1..completed
      BY ReadIs
  <1>2. values[1] = Identified(taken[1])
      BY <1>1, ReadIs DEF Processed, Collected
  <1>3. answers[k] = [j \in (HostKeys \cup InstanceKeys) \ Hidden |-> values[1][j]]
      BY ReadIs DEF Answer, SystemValues
  <1>4. Hidden \subseteq InstanceKeys /\ HostKeys \cap InstanceKeys = {}
      BY FileValues
  <1>5. \A j \in HostKeys \cup InstanceKeys :
            values[1][j] = IF j \in HostKeys \/ InstanceKeys \subseteq DOMAIN taken[1]
                           THEN taken[1][j] ELSE Unknown
      BY <1>2 DEF Identified
  <1> QED BY <1>3, <1>4, <1>5

\* What is plotted is what was read (process_raw_data and get_data of the types
\* of data that are not counters: what a record is filed under is what is asked for).
THEOREM WhatIsReadIsPlotted == FileSpec => []PlottedAsRead
  <1>1. IInv => PlottedAsRead
    <2> SUFFICES ASSUME IInv PROVE PlottedAsRead
        OBVIOUS
    <2>1. data \in {"meminfo", "interrupts", "stats", "settings", "system"}
        BY DEF IInv, FileTypes, Kinds
    <2>2. CASE data = "meminfo"
        BY <2>2, MeminfoIs DEF PlottedAsRead
    <2>3. CASE data = "interrupts"
        BY <2>3, InterruptsAre DEF PlottedAsRead
    <2>4. CASE data = "stats"
        BY <2>4, StatsAre DEF PlottedAsRead
    <2>5. CASE data = "settings"
        BY <2>5, SettingsAre DEF PlottedAsRead
    <2>6. CASE data = "system"
        BY <2>6, SystemIs DEF PlottedAsRead
    <2> QED BY <2>1, <2>2, <2>3, <2>4, <2>5, <2>6
  <1> QED BY <1>1, SpecIInv, PTL

-----------------------------------------------------------------------------
\* The kernel's configuration.  First, sequences that are put together.

\* What the recursive function of FlattenSeq is.
Flat(ss, N) == CHOOSE f : f = [i \in 1..N |-> IF i = 1 THEN ss[i] ELSE f[i - 1] \o ss[i]]

LEMMA FlattenIs == \A ss : Len(ss) # 0 => FlattenSeq(ss) = Flat(ss, Len(ss))[Len(ss)]
    BY Zenon DEF FlattenSeq, Flat

\* F[n] is the first n of the sequences put together.
Joined(X, N, ss) ==
    \E F \in [0..N -> Seq(X)] :
        F[0] = <<>> /\ (\A n \in 1..N : F[n] = F[n - 1] \o ss[n]) /\ FlattenSeq(ss) = F[N]

\* The sequences that are put together one after the other.
LEMMA JoinedIs ==
    ASSUME NEW X, NEW N \in Nat, NEW ss \in [1..N -> Seq(X)]
    PROVE  Joined(X, N, ss)
  <1> DEFINE after == [p \in (1..N) \X Seq(X) |-> p[2] \o ss[p[1]]]
  <1>1. after \in [(1..N) \X Seq(X) -> Seq(X)]
    <2>1. \A p \in (1..N) \X Seq(X) : p[2] \o ss[p[1]] \in Seq(X)
      <3> SUFFICES ASSUME NEW p \in (1..N) \X Seq(X) PROVE p[2] \o ss[p[1]] \in Seq(X)
          OBVIOUS
      <3>1. p[2] \in Seq(X) /\ ss[p[1]] \in Seq(X)
          OBVIOUS
      <3> QED BY ONLY <3>1, ConcatProperties
    <2> QED BY ONLY <2>1
  <1>2. \A n \in 1..N, x \in Seq(X) : after[<<n, x>>] = x \o ss[n]
      OBVIOUS
  <1>3. <<>> \in Seq(X)
      OBVIOUS
  <1> HIDE DEF after
  <1>4. PICK g \in [0..N -> Seq(X)] : Steps(g, <<>>, after, N)
      BY <1>1, <1>3, Recursion
  <1>5. g[0] = <<>> /\ \A n \in 1..N : g[n] = g[n - 1] \o ss[n]
    <2>1. g[0] = <<>> /\ \A n \in 1..N : g[n] = after[<<n, g[n - 1]>>]
        BY ONLY <1>4 DEF Steps
    <2>2. \A n \in 1..N : n - 1 \in 0..N
        OBVIOUS
    <2>3. \A n \in 1..N : g[n - 1] \in Seq(X)
        BY <2>2, <1>4
    <2> QED BY ONLY <1>2, <2>1, <2>3
  <1>6. CASE N = 0
    <2>1. ss = <<>> /\ Len(ss) = 0
        BY <1>6
    <2>2. FlattenSeq(ss) = <<>>
        BY <2>1 DEF FlattenSeq
    <2> QED BY <1>5, <1>6, <2>2 DEF Joined
  <1>7. CASE N # 0
    <2> DEFINE e(k) == [i \in 1..N |-> IF i = 1 THEN ss[i] ELSE k[i - 1] \o ss[i]]
               h == [i \in 1..N |-> g[i]]
               f == Flat(ss, N)
    <2>1. h = e(h)
      <3>1. \A i \in 1..N : i # 1 => i - 1 \in 1..N
          OBVIOUS
      <3>2. \A i \in 1..N : i # 1 => h[i - 1] = g[i - 1]
          BY <3>1
      <3>3. 1 \in 1..N => g[1] = ss[1]
        <4>1. 1 - 1 = 0
            OBVIOUS
        <4>2. 1 \in 1..N => g[1] = <<>> \o ss[1] /\ ss[1] \in Seq(X)
            BY <1>5, <4>1
        <4> QED BY ONLY <4>2, ConcatEmptySeq
      <3>4. \A i \in 1..N : g[i] = IF i = 1 THEN ss[i] ELSE h[i - 1] \o ss[i]
        <4> HIDE DEF h
        <4> QED BY ONLY <1>5, <3>2, <3>3
      <3> QED BY ONLY <3>4
    <2>2. f = e(f)
      <3>1. f = CHOOSE k : k = e(k)
          BY DEF Flat
      <3> HIDE DEF f, h, e
      <3> QED BY ONLY <2>1, <3>1, Zenon
    <2>3. \A i \in 1..N : f[i] = IF i = 1 THEN ss[i] ELSE f[i - 1] \o ss[i]
      <3> HIDE DEF f
      <3> QED BY <2>2
    <2> DEFINE bad == {i \in 1..N : f[i] # g[i]}
    <2>4. bad = {}
      <3> SUFFICES ASSUME bad # {} PROVE FALSE
          OBVIOUS
      <3>1. bad \in SUBSET Nat
          OBVIOUS
      <3> HIDE DEF f
      <3>2. PICK i \in bad : \A j \in bad : i <= j
        <4> HIDE DEF bad
        <4> QED BY <3>1, Least
      <3>3. i \in 1..N /\ f[i] # g[i]
          OBVIOUS
      <3>4. CASE i = 1
        <4>1. f[1] = ss[1]
            BY <2>3, <3>3, <3>4
        <4>2. h[1] = ss[1] /\ h[1] = g[1]
            BY <2>1, <3>3, <3>4
        <4> QED BY <3>3, <3>4, <4>1, <4>2
      <3>5. CASE i # 1
        <4>1. i - 1 \in 1..N /\ ~(i <= i - 1)
            BY <3>3, <3>5
        <4>2. f[i - 1] = g[i - 1]
            BY <3>2, <4>1
        <4>3. f[i] = f[i - 1] \o ss[i]
            BY <2>3, <3>3, <3>5
        <4>4. g[i] = g[i - 1] \o ss[i]
            BY <1>5, <3>3
        <4> QED BY ONLY <3>3, <4>2, <4>3, <4>4
      <3> QED BY <3>4, <3>5
    <2>5. Len(ss) = N
        OBVIOUS
    <2>6. FlattenSeq(ss) = g[N]
      <3>1. FlattenSeq(ss) = f[N]
          BY <1>7, <2>5, FlattenIs
      <3>2. N \in 1..N
          BY <1>7
      <3> HIDE DEF f
      <3> QED BY <2>4, <3>1, <3>2
    <2> QED BY <1>5, <2>6 DEF Joined
  <1> QED BY ONLY <1>6, <1>7

LEMMA RangeOfConcat ==
    ASSUME NEW X, NEW s \in Seq(X), NEW t \in Seq(X)
    PROVE  Range(s \o t) = Range(s) \cup Range(t)
    BY RangeConcatenation

\* A sequence of one.
LEMMA OneIs ==
    ASSUME NEW X, NEW x \in X
    PROVE  <<x>> \in Seq(X) /\ DOMAIN <<x>> = {1} /\ Range(<<x>>) = {x}
  <1>1. <<x>> \in Seq(X)
      OBVIOUS
  <1>2. DOMAIN <<x>> = {1} /\ <<x>>[1] = x
      OBVIOUS
  <1>3. Range(<<x>>) = {x}
      BY ONLY <1>2 DEF Range
  <1> QED BY ONLY <1>1, <1>2, <1>3

\* What is in sequences that are put together.
LEMMA FlatIs ==
    ASSUME NEW X, NEW N \in Nat, NEW ss \in [1..N -> Seq(X)]
    PROVE  /\ FlattenSeq(ss) \in Seq(X)
           /\ Range(FlattenSeq(ss)) = UNION {Range(ss[i]) : i \in 1..N}
  <1>1. Joined(X, N, ss)
      BY JoinedIs
  <1>2. PICK F \in [0..N -> Seq(X)] :
            F[0] = <<>> /\ (\A n \in 1..N : F[n] = F[n - 1] \o ss[n]) /\ FlattenSeq(ss) = F[N]
      BY <1>1 DEF Joined
  <1> DEFINE bad == {n \in 0..N : Range(F[n]) # UNION {Range(ss[i]) : i \in 1..n}}
  <1>3. bad = {}
    <2> SUFFICES ASSUME bad # {} PROVE FALSE
        OBVIOUS
    <2>1. bad \in SUBSET Nat
        OBVIOUS
    <2>2. PICK n \in bad : \A m \in bad : n <= m
      <3> HIDE DEF bad
      <3> QED BY <2>1, Least
    <2>3. CASE n = 0
      <3>1. F[n] = <<>> /\ 1..n = {}
          BY <1>2, <2>3
      <3>2. Range(F[n]) = {}
        <4>1. DOMAIN F[n] = {}
            BY <3>1
        <4> QED BY ONLY <4>1 DEF Range
      <3>3. UNION {Range(ss[i]) : i \in 1..n} = {}
          BY ONLY <3>1
      <3>4. Range(F[n]) # UNION {Range(ss[i]) : i \in 1..n}
          OBVIOUS
      <3> QED BY ONLY <3>2, <3>3, <3>4
    <2>4. CASE n # 0
      <3>1. n \in 1..N /\ n - 1 \in 0..N /\ ~(n <= n - 1) /\ 1..n = (1..(n - 1)) \cup {n}
          BY <2>4
      <3>2. Range(F[n - 1]) = UNION {Range(ss[i]) : i \in 1..(n - 1)}
          BY <2>2, <3>1
      <3>3. F[n] = F[n - 1] \o ss[n] /\ F[n - 1] \in Seq(X) /\ ss[n] \in Seq(X)
          BY <1>2, <3>1
      <3>4. Range(F[n]) = Range(F[n - 1]) \cup Range(ss[n])
          BY ONLY <3>3, RangeOfConcat
      <3>5. Range(F[n]) = UNION {Range(ss[i]) : i \in 1..n}
          BY ONLY <3>1, <3>2, <3>4
      <3> QED BY <3>5
    <2> QED BY <2>3, <2>4
  <1>4. N \in 0..N
      OBVIOUS
  <1> QED BY <1>2, <1>3, <1>4

-----------------------------------------------------------------------------
\* What the groups, their entries and the list of groups are.
Titled == Titles \cup {Root}
Items == [kind : {"setting"}, number : Nat] \cup [kind : {"group"}, title : Titled]
Entries == [path : Seq(Titled), item : Items]
Groups == [name : Titled, entries : Seq(Entries)]
Lists == Seq(Groups) \ {<<>>}

\* The settings among entries are numbers.
IsSetting(e) == e.item.kind = "setting"

LEMMA SettingsOfIs ==
    ASSUME NEW s \in Seq(Entries)
    PROVE  /\ SettingsOf(s) = {e.item.number : e \in {f \in Range(s) : IsSetting(f)}}
           /\ SettingsOf(s) \in SUBSET Nat
           /\ \A a \in DOMAIN s : IsSetting(s[a]) => s[a].item.number \in SettingsOf(s)
  <1>1. Range(s) \in SUBSET Entries
      BY RangeOfSeq
  <1>2. \A e \in Entries : IsSetting(e) => e.item.number \in Nat
      BY DEF Entries, Items, IsSetting
  <1>3. \A a \in DOMAIN s : s[a] \in Range(s)
      BY DEF Range
  <1> QED BY <1>1, <1>2, <1>3 DEF SettingsOf, IsSetting

LEMMA SettingsOfMany ==
    ASSUME NEW s \in Seq(Entries), NEW t \in Seq(Entries)
    PROVE  SettingsOf(s \o t) = SettingsOf(s) \cup SettingsOf(t)
  <1>1. Range(s \o t) = Range(s) \cup Range(t)
      BY RangeOfConcat
  <1> QED BY <1>1 DEF SettingsOf

\* Entries that are put behind others.
LEMMA InOrderMany ==
    ASSUME NEW s \in Seq(Entries), NEW t \in Seq(Entries), InOrder(s), InOrder(t),
           \A m \in SettingsOf(s), n \in SettingsOf(t) : m < n
    PROVE  InOrder(s \o t)
  <1> DEFINE u == s \o t
  <1>1. /\ Len(s) \in Nat /\ Len(t) \in Nat /\ DOMAIN s = 1..Len(s) /\ DOMAIN t = 1..Len(t)
        /\ DOMAIN u = 1..(Len(s) + Len(t))
        /\ \A i \in 1..(Len(s) + Len(t)) : u[i] = IF i <= Len(s) THEN s[i] ELSE t[i - Len(s)]
    <2>1. u \in Seq(Entries) /\ Len(u) = Len(s) + Len(t)
        BY ConcatProperties
    <2>2. \A i \in 1..(Len(s) + Len(t)) : u[i] = IF i <= Len(s) THEN s[i] ELSE t[i - Len(s)]
        BY ConcatProperties
    <2> HIDE DEF u
    <2> QED BY <2>1, <2>2
  <1> SUFFICES ASSUME NEW a \in DOMAIN u, NEW b \in DOMAIN u, a < b, IsSetting(u[a]), IsSetting(u[b])
               PROVE  u[a].item.number < u[b].item.number
      BY DEF InOrder, IsSetting
  <1> HIDE DEF u
  <1>2. CASE b <= Len(s)
    <2>1. a \in DOMAIN s /\ b \in DOMAIN s /\ u[a] = s[a] /\ u[b] = s[b]
        BY <1>1, <1>2
    <2> QED BY <2>1 DEF InOrder, IsSetting
  <1>3. CASE a <= Len(s) /\ ~(b <= Len(s))
    <2>1. a \in DOMAIN s /\ b - Len(s) \in DOMAIN t /\ u[a] = s[a] /\ u[b] = t[b - Len(s)]
        BY <1>1, <1>3
    <2>2. u[a].item.number \in SettingsOf(s)
        BY <2>1, SettingsOfIs
    <2>3. u[b].item.number \in SettingsOf(t)
        BY <2>1, SettingsOfIs
    <2> QED BY <2>2, <2>3
  <1>4. CASE ~(a <= Len(s))
    <2>1. /\ a - Len(s) \in DOMAIN t /\ b - Len(s) \in DOMAIN t /\ a - Len(s) < b - Len(s)
          /\ u[a] = t[a - Len(s)] /\ u[b] = t[b - Len(s)]
        BY <1>1, <1>4
    <2> QED BY <2>1 DEF InOrder, IsSetting
  <1> QED BY <1>1, <1>2, <1>3, <1>4

\* Entries of several kinds, those of each behind those of the one before.
LEMMA FlatInOrder ==
    ASSUME NEW N \in Nat, NEW ss \in [1..N -> Seq(Entries)],
           \A i \in 1..N : InOrder(ss[i]),
           \A i, j \in 1..N : i < j => \A m \in SettingsOf(ss[i]), n \in SettingsOf(ss[j]) : m < n
    PROVE  InOrder(FlattenSeq(ss))
  <1>1. Joined(Entries, N, ss)
      BY JoinedIs
  <1>2. PICK F \in [0..N -> Seq(Entries)] :
            F[0] = <<>> /\ (\A n \in 1..N : F[n] = F[n - 1] \o ss[n]) /\ FlattenSeq(ss) = F[N]
      BY <1>1 DEF Joined
  <1> DEFINE good(n) == /\ InOrder(F[n])
                        /\ SettingsOf(F[n]) = UNION {SettingsOf(ss[i]) : i \in 1..n}
             bad == {n \in 0..N : ~good(n)}
  <1>3. good(0)
    <2>1. F[0] = <<>> /\ 1..0 = {} /\ DOMAIN F[0] = {}
        BY <1>2
    <2>2. InOrder(F[0])
        BY ONLY <2>1 DEF InOrder
    <2>3. SettingsOf(F[0]) = {}
        BY ONLY <2>1 DEF SettingsOf, Range
    <2>4. UNION {SettingsOf(ss[i]) : i \in 1..0} = {}
        BY ONLY <2>1
    <2> QED BY ONLY <2>2, <2>3, <2>4
  <1>4. ASSUME NEW n \in 1..N, good(n - 1) PROVE good(n)
    <2>1. n - 1 \in 0..N /\ 1..n = (1..(n - 1)) \cup {n} /\ n \in Int
        OBVIOUS
    <2>2. F[n] = F[n - 1] \o ss[n] /\ F[n - 1] \in Seq(Entries) /\ ss[n] \in Seq(Entries)
        BY <1>2, <2>1
    <2>3. SettingsOf(F[n]) = SettingsOf(F[n - 1]) \cup SettingsOf(ss[n])
        BY ONLY <2>2, SettingsOfMany
    <2>4. SettingsOf(F[n]) = UNION {SettingsOf(ss[i]) : i \in 1..n}
        BY ONLY <1>4, <2>1, <2>3
    <2>5. \A m \in SettingsOf(F[n - 1]), k \in SettingsOf(ss[n]) : m < k
      <3>1. \A m \in SettingsOf(F[n - 1]) : \E i \in 1..(n - 1) : m \in SettingsOf(ss[i])
          BY ONLY <1>4
      <3>2. \A i \in 1..(n - 1) : i \in 1..N /\ i < n
          OBVIOUS
      <3> QED BY <3>1, <3>2
    <2>6. InOrder(F[n])
      <3>1. InOrder(F[n - 1]) /\ InOrder(ss[n])
          BY <1>4
      <3> QED BY ONLY <2>2, <2>5, <3>1, InOrderMany
    <2> QED BY ONLY <2>4, <2>6
  <1>5. bad = {}
    <2> SUFFICES ASSUME bad # {} PROVE FALSE
        OBVIOUS
    <2>1. bad \in SUBSET Nat
        OBVIOUS
    <2>2. PICK n \in bad : \A m \in bad : n <= m
      <3> HIDE DEF bad
      <3> QED BY <2>1, Least
    <2> HIDE DEF good
    <2>3. n \in 0..N /\ ~good(n)
        OBVIOUS
    <2>4. n \in 1..N
        BY <1>3, <2>3
    <2>5. n - 1 \in 0..N /\ ~(n <= n - 1)
        BY <2>4
    <2>6. good(n - 1)
        BY <2>2, <2>5
    <2> QED BY ONLY <1>4, <2>3, <2>4, <2>6
  <1>6. good(N)
    <2>1. N \in 0..N
        OBVIOUS
    <2> HIDE DEF good
    <2> QED BY <1>5, <2>1
  <1> QED BY <1>2, <1>6

-----------------------------------------------------------------------------
\* The list of groups.

\* No two groups of the list have one name.
Distinct(g) == \A i, j \in DOMAIN g : g[i].name = g[j].name => i = j

\* The settings in the groups of the list.
AllSettings(g) == UNION {SettingsOf(h.entries) : h \in Range(g)}

\* They are in order in each group and from one group to the next.
AllInOrder(g) == \A i \in DOMAIN g :
                    /\ InOrder(g[i].entries)
                    /\ \A j \in DOMAIN g : i < j =>
                         \A m \in SettingsOf(g[i].entries), n \in SettingsOf(g[j].entries) : m < n

\* The list is not empty, and its groups have names and entries.
LEMMA ListIs ==
    ASSUME NEW g \in Lists
    PROVE  /\ Len(g) \in Nat \ {0} /\ DOMAIN g = 1..Len(g) /\ Last(g) = g[Len(g)]
           /\ \A i \in 1..Len(g) : g[i] \in Groups /\ g[i].name \in Titled /\ g[i].entries \in Seq(Entries)
  <1>1. g \in Seq(Groups) /\ g # <<>>
      BY DEF Lists
  <1>2. Len(g) \in Nat \ {0} /\ DOMAIN g = 1..Len(g) /\ \A i \in 1..Len(g) : g[i] \in Groups
      BY <1>1
  <1> QED BY <1>2 DEF Groups, Last

\* The group t within another one, and what is in it.
LEMMA WithinIs ==
    ASSUME NEW t \in Titled, NEW h \in Groups
    PROVE  /\ Within(t, h) \in Seq(Entries)
           /\ SettingsOf(Within(t, h)) = SettingsOf(h.entries)
           /\ InOrder(h.entries) => InOrder(Within(t, h))
           /\ Range(Within(t, h)) = {[path |-> <<t>>, item |-> Group(h.name)]} \cup
                                    {[path |-> <<t>> \o e.path, item |-> e.item] : e \in Range(h.entries)}
  <1> DEFINE s == h.entries
             first == [path |-> <<t>>, item |-> Group(h.name)]
             deeper(e) == [path |-> <<t>> \o e.path, item |-> e.item]
             rest == [a \in DOMAIN s |-> deeper(s[a])]
  <1>1. h.name \in Titled /\ s \in Seq(Entries) /\ DOMAIN s = 1..Len(s) /\ Len(s) \in Nat
      BY DEF Groups
  <1>2. \A a \in DOMAIN s : s[a] \in Entries
      BY <1>1
  <1>3. Within(t, h) = <<first>> \o rest
      BY DEF Within
  <1>4. first \in Entries /\ ~IsSetting(first)
      BY <1>1 DEF Entries, Items, Group, IsSetting
  <1>5. \A e \in Entries : deeper(e) \in Entries /\ deeper(e).item = e.item
    <2> SUFFICES ASSUME NEW e \in Entries PROVE deeper(e) \in Entries /\ deeper(e).item = e.item
        OBVIOUS
    <2>1. e.path \in Seq(Titled) /\ <<t>> \in Seq(Titled) /\ e.item \in Items
        BY DEF Entries
    <2>2. <<t>> \o e.path \in Seq(Titled)
        BY ONLY <2>1, ConcatProperties
    <2> QED BY <2>1, <2>2 DEF Entries
  <1>6. rest \in Seq(Entries) /\ DOMAIN rest = DOMAIN s /\ \A a \in DOMAIN s : rest[a] = deeper(s[a])
    <2> HIDE DEF deeper, s
    <2>1. \A a \in DOMAIN s : rest[a] \in Entries
        BY <1>2, <1>5
    <2> QED BY <1>1, <2>1
  <1> HIDE DEF first, rest, deeper, s
  <1>7. <<first>> \in Seq(Entries) /\ Range(<<first>>) = {first}
    <2>1. first \in Entries
        BY ONLY <1>4
    <2>2. ASSUME NEW X, NEW x \in X PROVE <<x>> \in Seq(X) /\ Range(<<x>>) = {x}
        BY ONLY <2>2, OneIs
    <2> QED BY ONLY <2>1, <2>2
  <1>8. Range(Within(t, h)) = {first} \cup Range(rest)
    <2>1. <<first>> \in Seq(Entries) /\ rest \in Seq(Entries)
        BY ONLY <1>6, <1>7
    <2>2. \A a, b \in Seq(Entries) : Range(a \o b) = Range(a) \cup Range(b)
        BY ONLY RangeOfConcat
    <2>3. Range(<<first>> \o rest) = Range(<<first>>) \cup Range(rest)
        BY ONLY <2>1, <2>2
    <2> QED BY ONLY <1>3, <1>7, <2>3
  <1>9. Range(rest) = {deeper(e) : e \in Range(s)}
      BY <1>6 DEF Range
  <1>10. Within(t, h) \in Seq(Entries)
      BY <1>3, <1>6, <1>7, ConcatProperties
  <1>11. SettingsOf(<<first>>) = {}
      BY <1>4, <1>7, SettingsOfIs
  <1>12. SettingsOf(rest) = SettingsOf(s)
    <2>1. Range(s) \in SUBSET Entries
        BY <1>1, RangeOfSeq
    <2> QED BY <1>5, <1>9, <2>1 DEF SettingsOf
  <1>13. SettingsOf(Within(t, h)) = SettingsOf(s)
    <2>1. SettingsOf(<<first>> \o rest) = SettingsOf(<<first>>) \cup SettingsOf(rest)
        BY <1>6, <1>7, SettingsOfMany
    <2> QED BY <1>3, <1>11, <1>12, <2>1
  <1>14. ASSUME InOrder(s) PROVE InOrder(Within(t, h))
    <2>1. InOrder(rest)
        BY <1>2, <1>5, <1>6, <1>14 DEF InOrder
    <2>2. InOrder(<<first>>)
        BY <1>4 DEF InOrder, IsSetting
    <2>3. \A m \in SettingsOf(<<first>>), n \in SettingsOf(rest) : m < n
        BY <1>11
    <2>4. InOrder(<<first>> \o rest)
        BY <1>6, <1>7, <2>1, <2>2, <2>3, InOrderMany
    <2> QED BY <1>3, <2>4
  <1> QED BY <1>8, <1>9, <1>10, <1>13, <1>14 DEF first, deeper, s

\* Some of the positions in a sequence have a last one.
LEMMA Greatest ==
    ASSUME NEW N \in Nat, NEW T \in SUBSET (1..N), T # {}
    PROVE  \E x \in T : \A y \in T : y <= x
  <1> DEFINE left == {N - x : x \in T}
  <1>1. left \in SUBSET Nat /\ left # {}
    <2>1. \A x \in T : N - x \in Nat
        OBVIOUS
    <2> QED BY ONLY <2>1, T # {}
  <1>2. PICK d \in left : \A e \in left : d <= e
    <2> HIDE DEF left
    <2> QED BY <1>1, Least
  <1>3. PICK x \in T : d = N - x
      OBVIOUS
  <1>4. \A y \in T : N - x <= N - y
      BY <1>2, <1>3
  <1> QED BY <1>4

\* The list is cut after the last group of the title.
LEMMA KeptIs ==
    ASSUME NEW g \in Lists, NEW t, Matching(g, t) # {}
    PROVE  Kept(g, t) \in Matching(g, t) /\ \A j \in Matching(g, t) : j <= Kept(g, t)
  <1>1. Matching(g, t) \in SUBSET (1..Len(g)) /\ Len(g) \in Nat
      BY ListIs DEF Matching
  <1>2. PICK m \in Matching(g, t) : \A j \in Matching(g, t) : j <= m
      BY <1>1, Greatest
  <1>3. Matching(g, t) \in SUBSET Int /\ \A j \in Matching(g, t) : m >= j
      BY <1>1, <1>2
  <1>4. Max(Matching(g, t)) = m
      BY <1>3, MaxIs
  <1> QED BY <1>2, <1>4 DEF Kept

\* The groups put into one are behind it and in front of the next of the title.
LEMMA FollowingIs ==
    ASSUME NEW g \in Lists, NEW t, NEW i \in Matching(g, t)
    PROVE  /\ i \in 1..Len(g) /\ g[i].name = t
           /\ Following(g, t, i) \in Nat /\ i + Following(g, t, i) <= Len(g)
           /\ \A j \in Matching(g, t) : j > i => j > i + Following(g, t, i)
           /\ (\A j \in Matching(g, t) : j <= i) => i + Following(g, t, i) = Len(g)
  <1> DEFINE N == Len(g)
             later == {j \in Matching(g, t) : j > i}
             S == {N + 1} \cup later
  <1>1. N \in Nat /\ i \in 1..N /\ g[i].name = t /\ Matching(g, t) \in SUBSET (1..N)
      BY ListIs DEF Matching
  <1>2. S \in SUBSET Nat /\ S # {} /\ \A s \in S : s > i /\ s <= N + 1
      BY <1>1
  <1>3. PICK m \in S : \A s \in S : m <= s
    <2> HIDE DEF S
    <2> QED BY <1>2, Least
  <1>4. Min(S) = m
    <2>1. S \in SUBSET Int
        BY <1>2
    <2> HIDE DEF S
    <2> QED BY <1>3, <2>1, MinIs
  <1>5. Following(g, t, i) = m - i - 1
      BY <1>4 DEF Following
  <1>6. m > i /\ m <= N + 1 /\ m \in Nat
      BY <1>2
  <1>7. \A j \in Matching(g, t) : j > i => m <= j
      BY <1>3
  <1>8. (\A j \in Matching(g, t) : j <= i) => m = N + 1
      BY <1>1
  <1> HIDE DEF N, S
  <1>9. \A j \in Matching(g, t) : j \in Int
      BY <1>1
  <1> QED BY <1>1, <1>5, <1>6, <1>7, <1>8, <1>9 DEF N

\* What is put into a group: its entries, their settings and their order.
LEMMA InsideIs ==
    ASSUME NEW g \in Lists, NEW t \in Titled, NEW i \in Matching(g, t)
    PROVE  LET next == 1..Following(g, t, i)
           IN /\ Inside(g, t, i) \in Seq(Entries)
              /\ Range(Inside(g, t, i)) = UNION {Range(Within(t, g[i + k])) : k \in next}
              /\ SettingsOf(Inside(g, t, i)) = UNION {SettingsOf(g[i + k].entries) : k \in next}
              /\ AllInOrder(g) => InOrder(Inside(g, t, i))
  <1> DEFINE n == Following(g, t, i)
             ss == [k \in 1..n |-> Within(t, g[i + k])]
  <1>1. n \in Nat /\ i \in 1..Len(g) /\ i + n <= Len(g) /\ Len(g) \in Nat
      BY FollowingIs, ListIs
  <1>2. Inside(g, t, i) = FlattenSeq(ss)
      BY DEF Inside
  <1> HIDE DEF n
  <1>3. \A k \in 1..n : i + k \in 1..Len(g)
      BY <1>1
  <1>4. \A k \in 1..n : g[i + k] \in Groups
      BY <1>3, ListIs
  <1>5. \A k \in 1..n : /\ Within(t, g[i + k]) \in Seq(Entries)
                        /\ SettingsOf(Within(t, g[i + k])) = SettingsOf(g[i + k].entries)
                        /\ InOrder(g[i + k].entries) => InOrder(Within(t, g[i + k]))
      BY <1>4, WithinIs
  <1>6. ss \in [1..n -> Seq(Entries)] /\ \A k \in 1..n : ss[k] = Within(t, g[i + k])
      BY <1>5
  <1> HIDE DEF ss
  <1>7. /\ FlattenSeq(ss) \in Seq(Entries)
        /\ Range(FlattenSeq(ss)) = UNION {Range(ss[k]) : k \in 1..n}
      BY <1>1, <1>6, FlatIs
  <1>8. Range(FlattenSeq(ss)) = UNION {Range(Within(t, g[i + k])) : k \in 1..n}
      BY <1>6, <1>7
  <1>9. SettingsOf(FlattenSeq(ss)) = UNION {SettingsOf(ss[k]) : k \in 1..n}
      BY <1>7 DEF SettingsOf
  <1>10. SettingsOf(FlattenSeq(ss)) = UNION {SettingsOf(g[i + k].entries) : k \in 1..n}
      BY <1>5, <1>6, <1>9
  <1>11. ASSUME AllInOrder(g) PROVE InOrder(FlattenSeq(ss))
    <2>1. \A k \in 1..n : InOrder(ss[k])
        BY <1>3, <1>5, <1>6, <1>11, ListIs DEF AllInOrder
    <2>2. ASSUME NEW k \in 1..n, NEW j \in 1..n, k < j,
                 NEW a \in SettingsOf(ss[k]), NEW b \in SettingsOf(ss[j])
          PROVE  a < b
      <3>1. i + k \in DOMAIN g /\ i + j \in DOMAIN g
          BY <1>3, ListIs
      <3>2. i + k < i + j
          BY <1>1, <2>2
      <3>3. a \in SettingsOf(g[i + k].entries) /\ b \in SettingsOf(g[i + j].entries)
          BY <1>5, <1>6, <2>2
      <3> QED BY <1>11, <3>1, <3>2, <3>3 DEF AllInOrder
    <2> QED BY ONLY <1>1, <1>6, <2>1, <2>2, FlatInOrder
  <1> QED BY <1>2, <1>7, <1>8, <1>10, <1>11 DEF n

\* Ended, of a title that is in the list and is not the last one.
Moved(g, t) == Matching(g, t) # {} /\ Last(g).name # t

\* What is left of the list, group by group.
LEMMA EndedAt ==
    ASSUME NEW g \in Lists, NEW t \in Titled, Moved(g, t)
    PROVE  LET e == Ended(g, t)
               N == Kept(g, t)
           IN /\ N \in 1..Len(g) /\ N < Len(g) /\ g[N].name = t
              /\ e \in Lists /\ Len(e) = N
              /\ \A i \in 1..N :
                    /\ e[i].name = g[i].name
                    /\ e[i].entries = IF g[i].name = t THEN g[i].entries \o Inside(g, t, i)
                                      ELSE g[i].entries
  <1> DEFINE N == Kept(g, t)
             e == Ended(g, t)
  <1>1. N \in 1..Len(g) /\ g[N].name = t /\ Len(g) \in Nat \ {0}
      BY KeptIs, ListIs DEF Matching, Moved
  <1>2. N # Len(g)
      BY <1>1, ListIs DEF Moved
  <1>3. e = [i \in 1..N |-> IF i \in Matching(g, t)
                            THEN [g[i] EXCEPT !.entries = @ \o Inside(g, t, i)]
                            ELSE g[i]]
      BY DEF Ended, Moved
  <1> HIDE DEF N
  <1>4. ASSUME NEW i \in 1..N
        PROVE  /\ e[i] \in Groups /\ e[i].name = g[i].name
               /\ e[i].entries = IF g[i].name = t THEN g[i].entries \o Inside(g, t, i)
                                 ELSE g[i].entries
    <2>1. i \in 1..Len(g)
        BY <1>1
    <2>2. g[i] \in Groups /\ g[i].entries \in Seq(Entries) /\ g[i].name \in Titled
        BY <2>1, ListIs
    <2>3. i \in Matching(g, t) <=> g[i].name = t
        BY <2>1 DEF Matching
    <2>4. CASE i \in Matching(g, t)
      <3> DEFINE s == g[i].entries \o Inside(g, t, i)
      <3>1. Inside(g, t, i) \in Seq(Entries)
          BY <2>4, InsideIs
      <3>2. s \in Seq(Entries)
          BY <2>2, <3>1, ConcatProperties
      <3>3. e[i] = [g[i] EXCEPT !.entries = s]
          BY <1>3, <2>4
      <3> HIDE DEF s, e
      <3>4. e[i] \in Groups /\ e[i].name = g[i].name /\ e[i].entries = s
          BY <2>2, <3>2, <3>3 DEF Groups
      <3> QED BY <2>3, <2>4, <3>4 DEF s
    <2>5. CASE i \notin Matching(g, t)
        BY <1>3, <2>2, <2>3, <2>5
    <2> QED BY <2>4, <2>5
  <1>5. DOMAIN e = 1..N /\ N \in Nat \ {0}
      BY <1>1, <1>3
  <1> HIDE DEF e
  <1>6. e = [i \in 1..N |-> e[i]]
      BY <1>3, <1>5
  <1>7. e \in Seq(Groups) /\ Len(e) = N
      BY <1>4, <1>5, <1>6
  <1>8. e \in Lists
      BY <1>5, <1>7 DEF Lists
  <1> QED BY <1>1, <1>2, <1>4, <1>7, <1>8 DEF N, e

\* The settings in the list, by position.
LEMMA AllSettingsIs ==
    ASSUME NEW g \in Lists
    PROVE  /\ AllSettings(g) = UNION {SettingsOf(g[i].entries) : i \in 1..Len(g)}
           /\ AllSettings(g) \in SUBSET Nat
           /\ \A i \in 1..Len(g) : SettingsOf(g[i].entries) \in SUBSET Nat
  <1>1. Range(g) = {g[i] : i \in 1..Len(g)}
      BY ListIs DEF Range
  <1>2. \A i \in 1..Len(g) : SettingsOf(g[i].entries) \in SUBSET Nat
      BY ListIs, SettingsOfIs
  <1> QED BY <1>1, <1>2 DEF AllSettings

\* In a list without two groups of a name, only the last one is added to.
LEMMA EndedDistinct ==
    ASSUME NEW g \in Lists, NEW t \in Titled, Moved(g, t), Distinct(g)
    PROVE  LET e == Ended(g, t)
               N == Kept(g, t)
           IN /\ Distinct(e)
              /\ \A i \in 1..(N - 1) : e[i].entries = g[i].entries
              /\ e[N].entries = g[N].entries \o Inside(g, t, N)
              /\ N + Following(g, t, N) = Len(g)
  <1> DEFINE N == Kept(g, t)
             e == Ended(g, t)
  <1>1. /\ N \in 1..Len(g) /\ N < Len(g) /\ g[N].name = t /\ e \in Lists /\ Len(e) = N
        /\ \A i \in 1..N : /\ e[i].name = g[i].name
                           /\ e[i].entries = IF g[i].name = t THEN g[i].entries \o Inside(g, t, i)
                                             ELSE g[i].entries
      BY EndedAt
  <1>2. DOMAIN g = 1..Len(g) /\ DOMAIN e = 1..N /\ Len(g) \in Nat
      BY <1>1, ListIs
  <1>3. N + Following(g, t, N) = Len(g)
      BY KeptIs, FollowingIs DEF Moved
  <1> HIDE DEF N, e
  <1>4. \A i \in 1..N : i \in 1..Len(g) /\ (i # N => g[i].name # t)
    <2>1. \A i \in 1..N : i \in 1..Len(g)
        BY <1>1, <1>2
    <2> QED BY <1>1, <1>2, <2>1 DEF Distinct
  <1>5. Distinct(e)
      BY <1>1, <1>2, <1>4 DEF Distinct
  <1>6. \A i \in 1..(N - 1) : i \in 1..N /\ i # N
      BY <1>1, <1>2
  <1>7. N \in 1..N
      BY <1>1, <1>2
  <1> QED BY <1>1, <1>3, <1>4, <1>5, <1>6, <1>7 DEF N, e

\* The end of a menu loses no setting and adds none, whatever the names are.
LEMMA EndedSettings ==
    ASSUME NEW g \in Lists, NEW t \in Titled
    PROVE  AllSettings(Ended(g, t)) = AllSettings(g)
  <1>1. CASE ~Moved(g, t)
      BY <1>1 DEF Moved, Ended
  <1>2. CASE Moved(g, t)
    <2> DEFINE N == Kept(g, t)
               e == Ended(g, t)
    <2>1. /\ N \in 1..Len(g) /\ N < Len(g) /\ e \in Lists /\ Len(e) = N
          /\ \A i \in 1..N : e[i].entries = IF g[i].name = t THEN g[i].entries \o Inside(g, t, i)
                                            ELSE g[i].entries
        BY <1>2, EndedAt
    <2>2. N \in Matching(g, t) /\ N + Following(g, t, N) = Len(g) /\ Len(g) \in Nat
        BY <1>2, KeptIs, FollowingIs, ListIs DEF Moved
    <2>3. \A i \in 1..N : i \in 1..Len(g) /\ (i \in Matching(g, t) <=> g[i].name = t)
      <3> HIDE DEF N
      <3>1. \A i \in 1..N : i \in 1..Len(g)
          BY <2>1, <2>2
      <3> QED BY <3>1 DEF Matching
    <2> HIDE DEF N, e
    <2>4. ASSUME NEW i \in Matching(g, t)
          PROVE  SettingsOf(g[i].entries \o Inside(g, t, i)) =
                 SettingsOf(g[i].entries) \cup
                 UNION {SettingsOf(g[i + k].entries) : k \in 1..Following(g, t, i)}
      <3>1. i \in 1..Len(g)
          BY FollowingIs
      <3>2. g[i].entries \in Seq(Entries) /\ Inside(g, t, i) \in Seq(Entries)
          BY <3>1, InsideIs, ListIs
      <3>3. SettingsOf(Inside(g, t, i)) = UNION {SettingsOf(g[i + k].entries) : k \in 1..Following(g, t, i)}
          BY InsideIs
      <3> QED BY ONLY <3>2, <3>3, SettingsOfMany
    <2>5. \A i \in 1..N : \A m : m \in SettingsOf(e[i].entries) => \E j \in 1..Len(g) : m \in SettingsOf(g[j].entries)
      <3> SUFFICES ASSUME NEW i \in 1..N, NEW m, m \in SettingsOf(e[i].entries)
                   PROVE  \E j \in 1..Len(g) : m \in SettingsOf(g[j].entries)
          OBVIOUS
      <3>1. CASE g[i].name # t
          BY <2>1, <2>3, <3>1
      <3>2. CASE g[i].name = t
        <4>1. i \in Matching(g, t)
            BY <2>3, <3>2
        <4>2. m \in SettingsOf(g[i].entries) \/
              \E k \in 1..Following(g, t, i) : m \in SettingsOf(g[i + k].entries)
          <5>1. m \in SettingsOf(g[i].entries \o Inside(g, t, i))
              BY <2>1, <3>2
          <5> QED BY <2>4, <4>1, <5>1
        <4>3. /\ Following(g, t, i) \in Nat /\ i + Following(g, t, i) <= Len(g)
              /\ i \in 1..Len(g)
            BY <4>1, FollowingIs
        <4>4. \A k \in 1..Following(g, t, i) : i + k \in 1..Len(g)
            BY <2>2, <4>3
        <4> QED BY <4>2, <4>3, <4>4
      <3> QED BY <3>1, <3>2
    <2>6. \A j \in 1..Len(g) : \A m : m \in SettingsOf(g[j].entries) => \E i \in 1..N : m \in SettingsOf(e[i].entries)
      <3> SUFFICES ASSUME NEW j \in 1..Len(g), NEW m, m \in SettingsOf(g[j].entries)
                   PROVE  \E i \in 1..N : m \in SettingsOf(e[i].entries)
          OBVIOUS
      <3>1. CASE j <= N
        <4>1. j \in 1..N
            BY <2>1, <2>2, <3>1
        <4>2. CASE g[j].name # t
            BY <2>1, <4>1, <4>2
        <4>3. CASE g[j].name = t
          <5>1. j \in Matching(g, t)
              BY <2>3, <4>1, <4>3
          <5> QED BY <2>1, <2>4, <4>1, <4>3, <5>1
        <4> QED BY <4>2, <4>3
      <3>2. CASE ~(j <= N)
        <4> DEFINE k == j - N
        <4>1. k \in 1..Following(g, t, N) /\ N + k = j
          <5>1. Following(g, t, N) \in Nat /\ N \in Nat
              BY <2>1, <2>2, FollowingIs
          <5> QED BY <2>1, <2>2, <3>2, <5>1
        <4> HIDE DEF k
        <4>2. m \in SettingsOf(g[N].entries \o Inside(g, t, N))
            BY <2>2, <2>4, <4>1
        <4>3. N \in 1..N
            BY <2>1, <2>2
        <4> QED BY <2>1, <2>2, <2>3, <4>2, <4>3
      <3> QED BY <3>1, <3>2
    <2>7. AllSettings(e) = UNION {SettingsOf(e[i].entries) : i \in 1..N}
        BY <2>1, AllSettingsIs
    <2>8. AllSettings(g) = UNION {SettingsOf(g[i].entries) : i \in 1..Len(g)}
        BY AllSettingsIs
    <2>9. AllSettings(e) = AllSettings(g)
      <3> DEFINE of(i) == SettingsOf(g[i].entries)
                 in(i) == SettingsOf(e[i].entries)
      <3>1. UNION {in(i) : i \in 1..N} = UNION {of(j) : j \in 1..Len(g)}
        <4> HIDE DEF e
        <4>1. \A i \in 1..N : \A m : m \in in(i) => \E j \in 1..Len(g) : m \in of(j)
            BY <2>5
        <4>2. \A j \in 1..Len(g) : \A m : m \in of(j) => \E i \in 1..N : m \in in(i)
            BY <2>6
        <4> HIDE DEF of, in
        <4> QED BY ONLY <4>1, <4>2
      <3> QED BY <2>7, <2>8, <3>1
    <2> QED BY <2>9 DEF e
  <1> QED BY <1>1, <1>2

\* It keeps them in order when no two groups have one name.
LEMMA EndedInOrder ==
    ASSUME NEW g \in Lists, NEW t \in Titled, Distinct(g), AllInOrder(g)
    PROVE  Distinct(Ended(g, t)) /\ AllInOrder(Ended(g, t))
  <1>1. CASE ~Moved(g, t)
      BY <1>1 DEF Moved, Ended
  <1>2. CASE Moved(g, t)
    <2> DEFINE N == Kept(g, t)
               e == Ended(g, t)
    <2>1. /\ N \in 1..Len(g) /\ N < Len(g) /\ e \in Lists /\ Len(e) = N
        BY <1>2, EndedAt
    <2>2. /\ Distinct(e)
          /\ \A i \in 1..(N - 1) : e[i].entries = g[i].entries
          /\ e[N].entries = g[N].entries \o Inside(g, t, N)
          /\ N + Following(g, t, N) = Len(g)
        BY <1>2, EndedDistinct
    <2>3. N \in Matching(g, t) /\ Len(g) \in Nat /\ DOMAIN g = 1..Len(g) /\ DOMAIN e = 1..N
        BY <1>2, <2>1, KeptIs, ListIs DEF Moved
    <2>4. /\ Inside(g, t, N) \in Seq(Entries)
          /\ SettingsOf(Inside(g, t, N)) = UNION {SettingsOf(g[N + k].entries) : k \in 1..Following(g, t, N)}
          /\ InOrder(Inside(g, t, N))
        BY <2>3, InsideIs
    <2> HIDE DEF N, e
    <2>5. g[N].entries \in Seq(Entries)
        BY <2>1, ListIs
    <2>6. Following(g, t, N) \in Nat /\ \A k \in 1..Following(g, t, N) : N + k \in 1..Len(g) /\ N < N + k
      <3>1. Following(g, t, N) \in Nat
          BY <2>3, FollowingIs
      <3> QED BY <2>1, <2>2, <2>3, <3>1
    <2>7. \A m \in SettingsOf(g[N].entries), n \in SettingsOf(Inside(g, t, N)) : m < n
      <3> SUFFICES ASSUME NEW m \in SettingsOf(g[N].entries), NEW n \in SettingsOf(Inside(g, t, N))
                   PROVE  m < n
          OBVIOUS
      <3>1. PICK k \in 1..Following(g, t, N) : n \in SettingsOf(g[N + k].entries)
          BY <2>4
      <3>2. N \in DOMAIN g /\ N + k \in DOMAIN g /\ N < N + k
          BY <2>1, <2>3, <2>6
      <3> QED BY <3>1, <3>2 DEF AllInOrder
    <2>8. InOrder(g[N].entries)
        BY <2>1, <2>3 DEF AllInOrder
    <2>9. InOrder(e[N].entries)
        BY <2>2, <2>4, <2>5, <2>7, <2>8, InOrderMany
    <2>10. \A i \in 1..N : i # N => /\ i \in 1..(N - 1) /\ i \in DOMAIN g /\ i < N
        BY <2>1, <2>3
    <2>11. \A i \in 1..N : InOrder(e[i].entries)
        BY <2>2, <2>9, <2>10 DEF AllInOrder
    <2>12. SettingsOf(e[N].entries) = SettingsOf(g[N].entries) \cup
               UNION {SettingsOf(g[N + k].entries) : k \in 1..Following(g, t, N)}
        BY <2>2, <2>4, <2>5, SettingsOfMany
    <2>13. ASSUME NEW i \in 1..N, NEW j \in 1..N, i < j,
                  NEW m \in SettingsOf(e[i].entries), NEW n \in SettingsOf(e[j].entries)
           PROVE  m < n
      <3>1. i # N
          BY <2>1, <2>3, <2>13
      <3>2. m \in SettingsOf(g[i].entries) /\ i \in DOMAIN g /\ i < N
          BY <2>2, <2>10, <3>1
      <3>3. CASE j # N
        <4>1. n \in SettingsOf(g[j].entries) /\ j \in DOMAIN g
            BY <2>2, <2>10, <3>3
        <4> QED BY <2>13, <3>2, <4>1 DEF AllInOrder
      <3>4. CASE j = N
        <4>1. CASE n \in SettingsOf(g[N].entries)
          <5>1. N \in DOMAIN g
              BY <2>1, <2>3
          <5> QED BY <3>2, <4>1, <5>1 DEF AllInOrder
        <4>2. CASE n \notin SettingsOf(g[N].entries)
          <5>1. PICK k \in 1..Following(g, t, N) : n \in SettingsOf(g[N + k].entries)
              BY <2>12, <3>4, <4>2
          <5>2. N + k \in DOMAIN g /\ i < N + k
              BY <2>1, <2>3, <2>6, <3>2
          <5> QED BY <3>2, <5>1, <5>2 DEF AllInOrder
        <4> QED BY <4>1, <4>2
      <3> QED BY <3>3, <3>4
    <2>14. AllInOrder(e)
        BY <2>3, <2>11, <2>13 DEF AllInOrder
    <2> QED BY <2>2, <2>14 DEF e
  <1> QED BY <1>1, <1>2

\* A group begins.
Grown(g, t) == Append(g, [name |-> t, entries |-> <<>>])

\* A group that begins is the last one and empty.
LEMMA GrownIs ==
    ASSUME NEW g \in Lists, NEW t \in Titled
    PROVE  /\ Grown(g, t) \in Lists /\ Len(Grown(g, t)) = Len(g) + 1
           /\ \A i \in 1..Len(g) : Grown(g, t)[i] = g[i]
           /\ Grown(g, t)[Len(g) + 1] = [name |-> t, entries |-> <<>>]
           /\ AllSettings(Grown(g, t)) = AllSettings(g)
           /\ AllInOrder(g) => AllInOrder(Grown(g, t))
           /\ Distinct(g) /\ Matching(g, t) = {} => Distinct(Grown(g, t))
  <1> DEFINE N == Len(g)
             new == [name |-> t, entries |-> <<>>]
             w == Grown(g, t)
  <1>1. N \in Nat \ {0} /\ DOMAIN g = 1..N /\ g \in Seq(Groups) /\ g # <<>>
      BY ListIs DEF Lists
  <1>2. new \in Groups /\ new.name = t /\ new.entries = <<>>
      BY DEF Groups
  <1>3. w = Append(g, new)
      BY DEF Grown
  <1> HIDE DEF new, w
  <1>4. /\ w \in Seq(Groups) /\ w # <<>> /\ Len(w) = N + 1
        /\ \A i \in 1..N : w[i] = g[i]
        /\ w[N + 1] = new
      BY <1>1, <1>2, <1>3, AppendProperties
  <1>5. w \in Lists
      BY <1>4 DEF Lists
  <1>6. DOMAIN w = 1..(N + 1)
      BY <1>4, <1>5, ListIs
  <1>7. SettingsOf(<<>>) = {} /\ InOrder(<<>>)
      BY DEF SettingsOf, InOrder, Range
  <1>8. Range(w) = Range(g) \cup {new}
    <2>1. \A i \in 1..(N + 1) : i \in 1..N \/ i = N + 1
        BY <1>1
    <2>2. \A i \in 1..N : i \in 1..(N + 1)
        BY <1>1
    <2>3. N + 1 \in 1..(N + 1)
        BY <1>1
    <2> QED BY <1>1, <1>4, <1>6, <2>1, <2>2, <2>3 DEF Range
  <1>9. AllSettings(w) = AllSettings(g)
      BY <1>2, <1>7, <1>8 DEF AllSettings
  <1>10. \A i \in 1..(N + 1) : i # N + 1 => i \in 1..N
      BY <1>1
  <1>11. ASSUME AllInOrder(g) PROVE AllInOrder(w)
    <2>1. \A i \in 1..(N + 1) : InOrder(w[i].entries)
        BY <1>1, <1>2, <1>4, <1>7, <1>10, <1>11 DEF AllInOrder
    <2>2. ASSUME NEW i \in 1..(N + 1), NEW j \in 1..(N + 1), i < j,
                 NEW m \in SettingsOf(w[i].entries), NEW n \in SettingsOf(w[j].entries)
          PROVE  m < n
      <3>1. i \in 1..N
          BY <1>1, <2>2
      <3>2. j # N + 1
          BY <1>2, <1>4, <1>7, <2>2
      <3>3. j \in 1..N
          BY <1>10, <3>2
      <3> QED BY <1>1, <1>4, <1>11, <2>2, <3>1, <3>3 DEF AllInOrder
    <2> QED BY <1>6, <2>1, <2>2 DEF AllInOrder
  <1>12. ASSUME Distinct(g), Matching(g, t) = {} PROVE Distinct(w)
    <2>1. \A i \in 1..N : g[i].name # t
        BY <1>12 DEF Matching
    <2> QED BY <1>1, <1>2, <1>4, <1>6, <1>10, <1>12, <2>1 DEF Distinct
  <1> QED BY <1>4, <1>5, <1>9, <1>11, <1>12 DEF new, w

\* A setting is in the last group, behind the others.
LEMMA WithSettingIs ==
    ASSUME NEW g \in Lists, NEW n \in Nat
    PROVE  LET w == WithSetting(g, Setting(n))
               N == Len(g)
           IN /\ w \in Lists /\ Len(w) = N
              /\ \A i \in 1..N : w[i].name = g[i].name /\ (i # N => w[i].entries = g[i].entries)
              /\ Nested(w[N].entries) = Nested(g[N].entries)
              /\ AllSettings(w) = AllSettings(g) \cup {n}
              /\ Distinct(g) => Distinct(w)
              /\ AllInOrder(g) /\ (\A m \in AllSettings(g) : m < n) => AllInOrder(w)
  <1> DEFINE N == Len(g)
             s == g[N].entries
             e == [path |-> <<g[N].name>>, item |-> Setting(n)]
             w == WithSetting(g, Setting(n))
  <1>1. /\ N \in Nat \ {0} /\ DOMAIN g = 1..N /\ g \in Seq(Groups) /\ N \in 1..N
        /\ \A i \in 1..N : g[i] \in Groups /\ g[i].name \in Titled /\ g[i].entries \in Seq(Entries)
      BY ListIs DEF Lists
  <1>2. e \in Entries /\ e.item = Setting(n)
    <2>1. g[N].name \in Titled
        BY <1>1
    <2>2. <<g[N].name>> \in Seq(Titled)
        BY <2>1
    <2> QED BY <2>2 DEF Entries, Items, Setting
  <1>3. e.item.kind = "setting" /\ e.item.number = n
      BY <1>2 DEF Setting
  <1> HIDE DEF e
  <1>4. Append(s, e) = s \o <<e>> /\ s \in Seq(Entries) /\ <<e>> \in Seq(Entries)
      BY <1>1, <1>2, AppendIsConcat
  <1>5. w = [g EXCEPT ![N].entries = Append(@, e)]
      BY DEF WithSetting, e
  <1>6. s \o <<e>> \in Seq(Entries)
      BY <1>4, ConcatProperties
  <1> DEFINE h == [g[N] EXCEPT !.entries = s \o <<e>>]
  <1>7. h \in Groups /\ h.name = g[N].name /\ h.entries = s \o <<e>>
    <2>1. \A k \in Groups, t \in Seq(Entries) :
              LET l == [k EXCEPT !.entries = t] IN l \in Groups /\ l.name = k.name /\ l.entries = t
        BY DEF Groups
    <2>2. s \o <<e>> \in Seq(Entries) /\ g[N] \in Groups
        BY <1>1, <1>6
    <2> QED BY ONLY <2>1, <2>2 DEF h
  <1>8. w = [g EXCEPT ![N] = h]
    <2>1. \A x : x = s \o <<e>> => [g EXCEPT ![N].entries = x] = [g EXCEPT ![N] = [g[N] EXCEPT !.entries = x]]
        BY <1>1
    <2>2. w = [g EXCEPT ![N].entries = s \o <<e>>]
        BY <1>4, <1>5
    <2> QED BY <2>1, <2>2
  <1> HIDE DEF h, w
  <1>9. /\ w \in Seq(Groups) /\ Len(w) = N /\ w[N] = h
        /\ \A i \in 1..N : i # N => w[i] = g[i]
      BY <1>1, <1>7, <1>8, ExceptSeq
  <1>10. w \in Lists
      BY <1>1, <1>9 DEF Lists
  <1>11. DOMAIN w = 1..N
      BY <1>9, <1>10, ListIs
  <1>12. SettingsOf(<<e>>) = {n} /\ InOrder(<<e>>) /\ Range(<<e>>) = {e}
    <2>1. DOMAIN <<e>> = {1} /\ Range(<<e>>) = {e}
      <3>1. e \in Entries
          BY ONLY <1>2
      <3>2. ASSUME NEW X, NEW x \in X PROVE DOMAIN <<x>> = {1} /\ Range(<<x>>) = {x}
          BY ONLY <3>2, OneIs
      <3> QED BY ONLY <3>1, <3>2
    <2>2. InOrder(<<e>>)
        BY ONLY <2>1 DEF InOrder
    <2>3. SettingsOf(<<e>>) = {n}
      <3>1. {f \in Range(<<e>>) : f.item.kind = "setting"} = {e}
          BY ONLY <1>3, <2>1
      <3>2. SettingsOf(<<e>>) = {f.item.number : f \in {e}}
          BY ONLY <3>1 DEF SettingsOf
      <3> QED BY ONLY <1>3, <3>2
    <2> QED BY ONLY <2>1, <2>2, <2>3
  <1>13. SettingsOf(w[N].entries) = SettingsOf(s) \cup {n}
    <2>1. s \in Seq(Entries) /\ <<e>> \in Seq(Entries)
        BY ONLY <1>4
    <2>2. SettingsOf(s \o <<e>>) = SettingsOf(s) \cup SettingsOf(<<e>>)
        BY ONLY <2>1, SettingsOfMany
    <2> QED BY ONLY <1>7, <1>9, <1>12, <2>2
  <1>14. Nested(w[N].entries) = Nested(s)
    <2>1. Range(w[N].entries) = Range(s) \cup {e}
      <3>1. s \in Seq(Entries) /\ <<e>> \in Seq(Entries)
          BY ONLY <1>4
      <3>2. \A a, b \in Seq(Entries) : Range(a \o b) = Range(a) \cup Range(b)
          BY ONLY RangeOfConcat
      <3>3. Range(s \o <<e>>) = Range(s) \cup Range(<<e>>)
          BY ONLY <3>1, <3>2
      <3> QED BY ONLY <1>7, <1>9, <1>12, <3>3
    <2> QED BY <1>3, <2>1 DEF Nested
  <1>15. \A i \in 1..N : w[i].name = g[i].name /\ (i # N => w[i].entries = g[i].entries)
      BY <1>7, <1>9
  <1>16. AllSettings(w) = AllSettings(g) \cup {n}
    <2>1. AllSettings(w) = UNION {SettingsOf(w[i].entries) : i \in 1..N}
        BY <1>9, <1>10, AllSettingsIs
    <2>2. AllSettings(g) = UNION {SettingsOf(g[i].entries) : i \in 1..N}
        BY AllSettingsIs
    <2>3. \A i \in 1..N : SettingsOf(w[i].entries) = IF i = N THEN SettingsOf(g[i].entries) \cup {n}
                                                     ELSE SettingsOf(g[i].entries)
        BY <1>13, <1>15
    <2> DEFINE old(i) == SettingsOf(g[i].entries)
               now(i) == SettingsOf(w[i].entries)
    <2>4. \A i \in 1..N : now(i) = IF i = N THEN old(i) \cup {n} ELSE old(i)
        BY <2>3
    <2>5. N \in 1..N
        BY <1>1
    <2> HIDE DEF old, now, N
    <2>6. UNION {now(i) : i \in 1..N} = (UNION {old(i) : i \in 1..N}) \cup {n}
        BY ONLY <2>4, <2>5
    <2> QED BY <2>1, <2>2, <2>6 DEF old, now
  <1>17. Distinct(g) => Distinct(w)
      BY <1>1, <1>11, <1>15 DEF Distinct
  <1>18. ASSUME AllInOrder(g), \A m \in AllSettings(g) : m < n PROVE AllInOrder(w)
    <2>1. \A i \in 1..N : \A m \in SettingsOf(g[i].entries) : m < n
        BY <1>18, AllSettingsIs
    <2>2. InOrder(s)
        BY <1>1, <1>18 DEF AllInOrder
    <2>3. InOrder(s \o <<e>>)
        BY <1>1, <1>4, <1>12, <2>1, <2>2, InOrderMany
    <2>4. \A i \in 1..N : InOrder(w[i].entries)
      <3>1. \A i \in 1..N : i # N => InOrder(w[i].entries)
          BY <1>1, <1>15, <1>18 DEF AllInOrder
      <3>2. InOrder(w[N].entries)
          BY <1>7, <1>9, <2>3
      <3> QED BY <3>1, <3>2
    <2>5. ASSUME NEW i \in 1..N, NEW j \in 1..N, i < j,
                 NEW m \in SettingsOf(w[i].entries), NEW k \in SettingsOf(w[j].entries)
          PROVE  m < k
      <3>1. i # N
        <4> HIDE DEF N
        <4>1. i \in Int /\ j \in Int /\ j <= N /\ N \in Int
            BY <1>1
        <4> QED BY ONLY <2>5, <4>1
      <3>2. m \in SettingsOf(g[i].entries)
          BY <1>15, <3>1
      <3>3. k \in SettingsOf(g[j].entries) \/ k = n
          BY <1>13, <1>15
      <3>4. k \in SettingsOf(g[j].entries) => m < k
          BY <1>1, <1>18, <2>5, <3>2 DEF AllInOrder
      <3> QED BY <2>1, <3>2, <3>3, <3>4
    <2> QED BY <1>11, <2>4, <2>5 DEF AllInOrder
  <1> QED BY <1>9, <1>10, <1>14, <1>15, <1>16, <1>17, <1>18 DEF w

-----------------------------------------------------------------------------
\* The lines between the writer and the reader.

\* What can be ahead: nothing, a setting, the header of a title, the end of a
\* menu, and the blank line behind it.
Idle == ahead = <<>>
SettingAhead == ahead = <<Setting(settings)>> /\ settings # 0
HeaderAhead(t) == ahead = <<Blank, Bar, Text(t), Bar>>
EndAhead(t) == ahead = <<EndOf(t), Blank>>
BlankAhead == ahead = <<Blank>> /\ comments = <<>>

\* Within the header of a title, and within the lines in front of everything.
InHeader(t) == \/ comments = <<>> /\ ahead = <<Bar, Text(t), Bar>>
               \/ comments = <<Bar>> /\ ahead = <<Text(t), Bar>>
               \/ comments = <<Bar, Text(t)>> /\ ahead = <<Bar>>

AtStart == \/ comments = <<>> /\ ahead = <<Bar, Text(Root), Text(Root), Bar>>
           \/ comments = <<Bar>> /\ ahead = <<Text(Root), Text(Root), Bar>>
           \/ comments = <<Bar, Text(Root)>> /\ ahead = <<Text(Root), Bar>>
           \/ comments = <<Bar, Text(Root), Text(Root)>> /\ ahead = <<Bar>>

\* What has been read is the header of a title, if it is one.
HeaderRead == IsHeader => \E t \in Titles : comments = <<Bar, Text(t), Bar>>

\* Where the reader can be.
LinesAre == \/ HeaderRead /\ (Idle \/ SettingAhead)
            \/ HeaderRead /\ \E t \in Titles : HeaderAhead(t) \/ EndAhead(t)
            \/ BlankAhead \/ AtStart
            \/ \E t \in Titles : InHeader(t)

\* What repeated is once the group of a header that has been read is begun.
Again == repeated \/ (IsHeader /\ Matching(groups, comments[2].title) # {})

\* Sequences of up to four lines, of which the first is read.
LEMMA TailOne == \A a : Tail(<<a>>) = <<>>
    OBVIOUS

LEMMA TailTwo == \A a, b : Tail(<<a, b>>) = <<b>>
    OBVIOUS

LEMMA TailThree == \A a, b, c : Tail(<<a, b, c>>) = <<b, c>>
    OBVIOUS

LEMMA TailFour == \A a, b, c, d : Tail(<<a, b, c, d>>) = <<b, c, d>>
    OBVIOUS

\* A comment is put behind those read before it.
LEMMA AppendIs ==
    ASSUME NEW S, NEW s \in Seq(S), NEW x \in S
    PROVE  /\ Append(s, x) \in Seq(S) /\ Len(Append(s, x)) = Len(s) + 1 /\ Append(s, x)[Len(s) + 1] = x
           /\ \A i \in 1..Len(s) : Append(s, x)[i] = s[i]
    BY AppendProperties

LEMMA AppendEqual ==
    ASSUME NEW S, NEW s \in Seq(S), NEW x \in S, NEW f \in Seq(S),
           Len(f) = Len(s) + 1, f[Len(s) + 1] = x, \A i \in 1..Len(s) : f[i] = s[i]
    PROVE  Append(s, x) = f
  <1> DEFINE w == Append(s, x)
             n == Len(s)
  <1>1. w \in Seq(S) /\ Len(w) = n + 1 /\ w[n + 1] = x /\ \A i \in 1..n : w[i] = s[i]
      BY AppendIs
  <1>2. \A i \in 1..(n + 1) : i \in 1..n \/ i = n + 1
      OBVIOUS
  <1> HIDE DEF w
  <1>3. \A i \in 1..Len(w) : w[i] = f[i]
      BY <1>1, <1>2
  <1>4. Len(w) = Len(f) /\ f \in Seq(S)
      BY <1>1
  <1> QED BY ONLY <1>1, <1>3, <1>4, SeqEqual DEF w

LEMMA AppendedNone == \A a : Append(<<>>, a) = <<a>>
    OBVIOUS

LEMMA AppendedOne == \A a, b : Append(<<a>>, b) = <<a, b>>
  <1> SUFFICES ASSUME NEW a, NEW b PROVE Append(<<a>>, b) = <<a, b>>
      OBVIOUS
  <1> DEFINE S == {a, b}
             s == <<a>>
             f == <<a, b>>
  <1>1. s \in Seq(S) /\ Len(s) = 1 /\ b \in S /\ s[1] = a
      OBVIOUS
  <1>2. f \in Seq(S) /\ Len(f) = 2 /\ f[1] = a /\ f[2] = b
      OBVIOUS
  <1> HIDE DEF S, s, f
  <1>3. \A i \in 1..1 : i = 1
      OBVIOUS
  <1>4. \A i \in 1..Len(s) : f[i] = s[i]
      BY ONLY <1>1, <1>2, <1>3
  <1>5. Len(f) = Len(s) + 1 /\ f[Len(s) + 1] = b
      BY ONLY <1>1, <1>2
  <1>6. Append(s, b) = f
      BY <1>1, <1>2, <1>4, <1>5, AppendEqual
  <1> QED BY <1>6 DEF f, s

LEMMA AppendedTwo == \A a, b, c : Append(<<a, b>>, c) = <<a, b, c>>
  <1> SUFFICES ASSUME NEW a, NEW b, NEW c PROVE Append(<<a, b>>, c) = <<a, b, c>>
      OBVIOUS
  <1> DEFINE S == {a, b, c}
             s == <<a, b>>
             f == <<a, b, c>>
  <1>1. s \in Seq(S) /\ Len(s) = 2 /\ c \in S /\ s[1] = a /\ s[2] = b
      OBVIOUS
  <1>2. f \in Seq(S) /\ Len(f) = 3 /\ f[1] = a /\ f[2] = b /\ f[3] = c
      OBVIOUS
  <1> HIDE DEF S, s, f
  <1>3. \A i \in 1..2 : i = 1 \/ i = 2
      OBVIOUS
  <1>4. \A i \in 1..Len(s) : f[i] = s[i]
      BY ONLY <1>1, <1>2, <1>3
  <1>5. Len(f) = Len(s) + 1 /\ f[Len(s) + 1] = c
      BY ONLY <1>1, <1>2
  <1>6. Append(s, c) = f
      BY <1>1, <1>2, <1>4, <1>5, AppendEqual
  <1> QED BY <1>6 DEF f, s

LEMMA AppendedThree == \A a, b, c, d : Append(<<a, b, c>>, d) = <<a, b, c, d>>
  <1> SUFFICES ASSUME NEW a, NEW b, NEW c, NEW d PROVE Append(<<a, b, c>>, d) = <<a, b, c, d>>
      OBVIOUS
  <1> DEFINE S == {a, b, c, d}
             s == <<a, b, c>>
             f == <<a, b, c, d>>
  <1>1. s \in Seq(S) /\ Len(s) = 3 /\ d \in S /\ s[1] = a /\ s[2] = b /\ s[3] = c
      OBVIOUS
  <1>2. f \in Seq(S) /\ Len(f) = 4 /\ f[1] = a /\ f[2] = b /\ f[3] = c /\ f[4] = d
      OBVIOUS
  <1> HIDE DEF S, s, f
  <1>3. \A i \in 1..3 : i = 1 \/ i = 2 \/ i = 3
      OBVIOUS
  <1>4. \A i \in 1..Len(s) : f[i] = s[i]
      BY ONLY <1>1, <1>2, <1>3
  <1>5. Len(f) = Len(s) + 1 /\ f[Len(s) + 1] = d
      BY ONLY <1>1, <1>2
  <1>6. Append(s, d) = f
      BY <1>1, <1>2, <1>4, <1>5, AppendEqual
  <1> QED BY <1>6 DEF f, s

LEMMA Tails ==
    /\ \A a : Tail(<<a>>) = <<>>
    /\ \A a, b : Tail(<<a, b>>) = <<b>> /\ Append(<<a>>, b) = <<a, b>>
    /\ \A a, b, c : Tail(<<a, b, c>>) = <<b, c>> /\ Append(<<a, b>>, c) = <<a, b, c>>
    /\ \A a, b, c, d : Tail(<<a, b, c, d>>) = <<b, c, d>> /\ Append(<<a, b, c>>, d) = <<a, b, c, d>>
    BY ONLY TailOne, TailTwo, TailThree, TailFour, AppendedOne, AppendedTwo, AppendedThree

LEMMA Heads ==
    /\ \A a : Head(<<a>>) = a /\ <<a>> # <<>>
    /\ \A a, b : Head(<<a, b>>) = a /\ <<a, b>> # <<>>
    /\ \A a, b, c : Head(<<a, b, c>>) = a /\ <<a, b, c>> # <<>>
    /\ \A a, b, c, d : Head(<<a, b, c, d>>) = a /\ <<a, b, c, d>> # <<>>
    OBVIOUS

LEMMA KindsAre ==
    /\ Bar.kind = "comment" /\ Blank.kind = "blank"
    /\ \A t : Text(t).kind = "comment" /\ EndOf(t).kind = "end" /\ EndOf(t).title = t /\ Text(t).title = t
    /\ \A n : Setting(n).kind = "setting" /\ Setting(n).number = n
    BY DEF Bar, Blank, Text, EndOf, Setting

\* What a line that is read does.
ReadSetting == /\ SettingAhead /\ HeaderRead /\ Idle' /\ comments' = <<>>
               /\ groups' = WithSetting(Begun, Setting(settings)) /\ repeated' = Again

ReadBlank(t) == /\ HeaderAhead(t) /\ HeaderRead /\ InHeader(t)' /\ comments' = <<>>
                /\ groups' = Begun /\ repeated' = Again

ReadEnd(t) == /\ EndAhead(t) /\ HeaderRead /\ BlankAhead'
              /\ groups' = Ended(Begun, t) /\ repeated' = Again

ReadLast == BlankAhead /\ Idle' /\ comments' = <<>> /\ UNCHANGED <<groups, repeated>>

ReadHeader(t) == /\ InHeader(t)
                 /\ InHeader(t)' \/ (Idle' /\ comments' = <<Bar, Text(t), Bar>>)
                 /\ UNCHANGED <<groups, repeated>>

ReadStart == /\ AtStart
             /\ AtStart' \/ (Idle' /\ comments' = <<Bar, Text(Root), Text(Root), Bar>>)
             /\ UNCHANGED <<groups, repeated>>

\* Where the reader is tells what the line read next does.
LEMMA ReadsAre ==
    ASSUME repeated \in BOOLEAN, ReadComment \/ ReadLine
    PROVE  /\ HeaderRead /\ SettingAhead => ReadSetting
           /\ \A t \in Titles : HeaderRead /\ HeaderAhead(t) => ReadBlank(t)
           /\ \A t \in Titles : HeaderRead /\ EndAhead(t) => ReadEnd(t)
           /\ BlankAhead => ReadLast
           /\ \A t \in Titles : InHeader(t) => ReadHeader(t)
           /\ AtStart => ReadStart
           /\ ~Idle /\ UNCHANGED <<items, open, within, settings>>
  <1>1. ahead # <<>> /\ ahead' = Tail(ahead) /\ UNCHANGED <<items, open, within, settings>>
      BY DEF ReadComment, ReadLine
  <1>2. Head(ahead).kind = "comment" => comments' = Append(comments, Head(ahead)) /\ UNCHANGED <<groups, repeated>>
      BY DEF ReadComment, ReadLine
  <1>3. Head(ahead).kind # "comment" =>
            /\ comments' = <<>> /\ repeated' = Again
            /\ groups' = CASE Head(ahead).kind = "blank"   -> Begun
                           [] Head(ahead).kind = "setting" -> WithSetting(Begun, Head(ahead))
                           [] Head(ahead).kind = "end"     -> Ended(Begun, Head(ahead).title)
      BY DEF ReadComment, ReadLine, Again
  <1>4. ASSUME HeaderRead, SettingAhead PROVE ReadSetting
    <2>1. Head(ahead) = Setting(settings) /\ Tail(ahead) = <<>>
        BY <1>4, Heads, Tails DEF SettingAhead
    <2>2. groups' = WithSetting(Begun, Setting(settings)) /\ comments' = <<>> /\ repeated' = Again
        BY <1>3, <2>1, KindsAre
    <2> QED BY <1>1, <1>4, <2>1, <2>2 DEF ReadSetting, Idle
  <1>5. ASSUME HeaderRead, NEW t \in Titles, HeaderAhead(t) PROVE ReadBlank(t)
    <2>1. Head(ahead) = Blank /\ Tail(ahead) = <<Bar, Text(t), Bar>>
        BY <1>5, Heads, Tails DEF HeaderAhead
    <2>2. groups' = Begun /\ comments' = <<>> /\ repeated' = Again
        BY <1>3, <2>1, KindsAre
    <2> QED BY <1>1, <1>5, <2>1, <2>2 DEF ReadBlank, InHeader
  <1>6. ASSUME HeaderRead, NEW t \in Titles, EndAhead(t) PROVE ReadEnd(t)
    <2>1. Head(ahead) = EndOf(t) /\ Tail(ahead) = <<Blank>>
        BY <1>6, Heads, Tails DEF EndAhead
    <2>2. groups' = Ended(Begun, t) /\ comments' = <<>> /\ repeated' = Again
        BY <1>3, <2>1, KindsAre
    <2> QED BY <1>1, <1>6, <2>1, <2>2 DEF ReadEnd, BlankAhead
  <1>7. ASSUME BlankAhead PROVE ReadLast
    <2>1. Head(ahead) = Blank /\ Tail(ahead) = <<>> /\ ~IsHeader
        BY <1>7, Heads, Tails DEF BlankAhead, IsHeader
    <2>2. Blank.kind = "blank"
        BY KindsAre
    <2>3. groups' = Begun /\ comments' = <<>> /\ repeated' = Again
        BY <1>3, <2>1, <2>2
    <2>4. Begun = groups
        BY <2>1 DEF Begun
    <2>5. Again = repeated
        BY <2>1 DEF Again
    <2> QED BY <1>1, <1>7, <2>1, <2>3, <2>4, <2>5 DEF ReadLast, Idle
  <1>8. ASSUME NEW t \in Titles, InHeader(t) PROVE ReadHeader(t)
    <2>1. Head(ahead).kind = "comment"
        BY <1>8, Heads, KindsAre DEF InHeader
    <2>2. CASE comments = <<>> /\ ahead = <<Bar, Text(t), Bar>>
      <3>1. comments' = <<Bar>> /\ ahead' = <<Text(t), Bar>>
          BY <1>1, <1>2, <2>1, <2>2, Heads, Tails, AppendedNone
      <3> QED BY <1>2, <1>8, <2>1, <3>1 DEF ReadHeader, InHeader
    <2>3. CASE comments = <<Bar>> /\ ahead = <<Text(t), Bar>>
      <3>1. comments' = <<Bar, Text(t)>> /\ ahead' = <<Bar>>
          BY <1>1, <1>2, <2>1, <2>3, Heads, Tails
      <3> QED BY <1>2, <1>8, <2>1, <3>1 DEF ReadHeader, InHeader
    <2>4. CASE comments = <<Bar, Text(t)>> /\ ahead = <<Bar>>
      <3>1. comments' = <<Bar, Text(t), Bar>> /\ ahead' = <<>>
          BY <1>1, <1>2, <2>1, <2>4, Heads, Tails
      <3> QED BY <1>2, <1>8, <2>1, <3>1 DEF ReadHeader, Idle
    <2> QED BY <1>8, <2>2, <2>3, <2>4 DEF InHeader
  <1>9. ASSUME AtStart PROVE ReadStart
    <2>1. Head(ahead).kind = "comment"
        BY <1>9, Heads, KindsAre DEF AtStart
    <2>2. CASE comments = <<>> /\ ahead = <<Bar, Text(Root), Text(Root), Bar>>
      <3>1. comments' = <<Bar>> /\ ahead' = <<Text(Root), Text(Root), Bar>>
          BY <1>1, <1>2, <2>1, <2>2, Heads, Tails, AppendedNone
      <3> QED BY <1>2, <1>9, <2>1, <3>1 DEF ReadStart, AtStart
    <2>3. CASE comments = <<Bar>> /\ ahead = <<Text(Root), Text(Root), Bar>>
      <3>1. comments' = <<Bar, Text(Root)>> /\ ahead' = <<Text(Root), Bar>>
          BY <1>1, <1>2, <2>1, <2>3, Heads, Tails
      <3> QED BY <1>2, <1>9, <2>1, <3>1 DEF ReadStart, AtStart
    <2>4. CASE comments = <<Bar, Text(Root)>> /\ ahead = <<Text(Root), Bar>>
      <3>1. comments' = <<Bar, Text(Root), Text(Root)>> /\ ahead' = <<Bar>>
          BY <1>1, <1>2, <2>1, <2>4, Heads, Tails
      <3> QED BY <1>2, <1>9, <2>1, <3>1 DEF ReadStart, AtStart
    <2>5. CASE comments = <<Bar, Text(Root), Text(Root)>> /\ ahead = <<Bar>>
      <3>1. comments' = <<Bar, Text(Root), Text(Root), Bar>> /\ ahead' = <<>>
          BY <1>1, <1>2, <2>1, <2>5, Heads, Tails
      <3> QED BY <1>2, <1>9, <2>1, <3>1 DEF ReadStart, Idle
    <2> QED BY <1>9, <2>2, <2>3, <2>4, <2>5 DEF AtStart
  <1>10. ~Idle
      BY <1>1 DEF Idle
  <1> QED BY <1>1, <1>4, <1>5, <1>6, <1>7, <1>8, <1>9, <1>10

LEMMA ReadIsOne ==
    ASSUME LinesAre, repeated \in BOOLEAN, ReadComment \/ ReadLine
    PROVE  /\ \/ ReadSetting \/ ReadLast \/ ReadStart
              \/ \E t \in Titles : ReadBlank(t) \/ ReadEnd(t) \/ ReadHeader(t)
           /\ UNCHANGED <<items, open, within, settings>>
  <1>1. ~Idle
      BY ReadsAre
  <1> QED BY <1>1, ReadsAre DEF LinesAre

\* The variables hold what the reader and the writer put in them.
ConfigTypes == /\ settings \in Nat /\ open \in Seq(Titles)
               /\ groups \in Lists /\ repeated \in BOOLEAN

\* A setting has been written and not read.
HasSetting == \E i \in DOMAIN ahead : ahead[i].kind = "setting"

\* Sequences of up to four lines, by position.
LEMMA Domains ==
    /\ \A a : DOMAIN <<a>> = {1} /\ <<a>>[1] = a
    /\ \A a, b : DOMAIN <<a, b>> = {1, 2} /\ <<a, b>>[1] = a /\ <<a, b>>[2] = b
    /\ \A a, b, c : /\ DOMAIN <<a, b, c>> = {1, 2, 3}
                    /\ <<a, b, c>>[1] = a /\ <<a, b, c>>[2] = b /\ <<a, b, c>>[3] = c
    /\ \A a, b, c, d : /\ DOMAIN <<a, b, c, d>> = {1, 2, 3, 4}
                       /\ <<a, b, c, d>>[1] = a /\ <<a, b, c, d>>[2] = b
                       /\ <<a, b, c, d>>[3] = c /\ <<a, b, c, d>>[4] = d
    OBVIOUS

\* Where the reader is when a setting is ahead.
LEMMA HasSettingIs ==
    /\ SettingAhead => HasSetting
    /\ Idle \/ BlankAhead \/ AtStart => ~HasSetting
    /\ \A t : HeaderAhead(t) \/ EndAhead(t) \/ InHeader(t) => ~HasSetting
  <1>2. SettingAhead => HasSetting
      BY Domains, KindsAre DEF SettingAhead, HasSetting
  <1>3. Idle => ~HasSetting
      BY DEF Idle, HasSetting
  <1>4. BlankAhead => ~HasSetting
      BY Domains, KindsAre DEF BlankAhead, HasSetting
  <1>5. AtStart => ~HasSetting
      BY Domains, KindsAre DEF AtStart, HasSetting
  <1>6. \A t : HeaderAhead(t) => ~HasSetting
      BY Domains, KindsAre DEF HeaderAhead, HasSetting
  <1>7. \A t : EndAhead(t) => ~HasSetting
      BY Domains, KindsAre DEF EndAhead, HasSetting
  <1>8. \A t : InHeader(t) => ~HasSetting
      BY Domains, KindsAre DEF InHeader, HasSetting
  <1> QED BY <1>2, <1>3, <1>4, <1>5, <1>6, <1>7, <1>8

\* The settings that have been read.
SettingsRead == 1..(IF HasSetting THEN settings - 1 ELSE settings)

\* A header that has been read begins the group of its title.
LEMMA BegunIs ==
    ASSUME groups \in Lists, HeaderRead
    PROVE  /\ Begun \in Lists /\ AllSettings(Begun) = AllSettings(groups)
           /\ Distinct(groups) /\ ~Again => Distinct(Begun)
           /\ AllInOrder(groups) => AllInOrder(Begun)
           /\ IsHeader => \E t \in Titles :
                 /\ Begun = Grown(groups, t)
                 /\ Again <=> (repeated \/ Matching(groups, t) # {})
  <1>1. CASE ~IsHeader
      BY <1>1 DEF Begun
  <1>2. CASE IsHeader
    <2>1. PICK t \in Titles : comments = <<Bar, Text(t), Bar>>
        BY <1>2 DEF HeaderRead
    <2>2. comments[2].title = t
      <3>1. comments[2] = Text(t)
          BY <2>1
      <3> QED BY <3>1 DEF Text
    <2>3. Begun = Grown(groups, t)
        BY <1>2, <2>2 DEF Begun, Grown
    <2>4. Again <=> (repeated \/ Matching(groups, t) # {})
        BY <1>2, <2>2 DEF Again
    <2>5. t \in Titled
        BY DEF Titled
    <2> QED BY <1>2, <2>3, <2>4, <2>5, GrownIs
  <1> QED BY <1>1, <1>2

-----------------------------------------------------------------------------
\* Every setting read is in the list of groups.

\* The list has the settings that were read, in order unless a name was repeated.
Listed == /\ AllSettings(groups) = SettingsRead
          /\ ~repeated => Distinct(groups) /\ AllInOrder(groups)

ConfigInv == ConfigTypes /\ LinesAre /\ Listed

\* It holds in front of the file's first line.
LEMMA ConfigInvStart == ConfigInit => ConfigInv
  <1> SUFFICES ASSUME ConfigInit PROVE ConfigInv
      OBVIOUS
  <1> DEFINE root == [name |-> Root, entries |-> <<>>]
  <1>1. /\ open = <<>> /\ comments = <<>> /\ groups = <<root>> /\ repeated = FALSE
        /\ \/ ahead = <<Bar, Text(Root), Text(Root), Bar>> /\ settings = 0
           \/ ahead = <<Setting(1)>> /\ settings = 1
      BY DEF ConfigInit
  <1>2. root \in Groups /\ root.entries = <<>>
      BY DEF Groups, Titled
  <1> HIDE DEF root
  <1>3. groups \in Lists /\ DOMAIN groups = {1} /\ groups[1] = root /\ Range(groups) = {root}
      BY <1>1, <1>2 DEF Lists, Range
  <1>4. ConfigTypes
    <2>1. <<>> \in Seq(Titles)
        OBVIOUS
    <2>2. settings \in Nat
        BY <1>1
    <2> QED BY <1>1, <1>3, <2>1, <2>2 DEF ConfigTypes
  <1>5. SettingsOf(<<>>) = {} /\ InOrder(<<>>)
      BY DEF SettingsOf, InOrder, Range
  <1>6. AllSettings(groups) = {}
      BY <1>2, <1>3, <1>5 DEF AllSettings
  <1>7. Distinct(groups) /\ AllInOrder(groups)
      BY <1>2, <1>3, <1>5 DEF Distinct, AllInOrder
  <1>8. CASE ahead = <<Bar, Text(Root), Text(Root), Bar>> /\ settings = 0
    <2>1. AtStart
        BY <1>1, <1>8 DEF AtStart
    <2>2. SettingsRead = {}
        BY <1>8, <2>1, HasSettingIs DEF SettingsRead
    <2> QED BY <1>4, <1>6, <1>7, <2>1, <2>2 DEF ConfigInv, LinesAre, Listed
  <1>9. CASE ahead = <<Setting(1)>> /\ settings = 1
    <2>1. SettingAhead
        BY <1>9 DEF SettingAhead
    <2>2. SettingsRead = {}
        BY <1>9, <2>1, HasSettingIs DEF SettingsRead
    <2>3. HeaderRead
        BY <1>1 DEF HeaderRead, IsHeader
    <2> QED BY <1>4, <1>6, <1>7, <2>1, <2>2, <2>3 DEF ConfigInv, LinesAre, Listed
  <1> QED BY <1>1, <1>8, <1>9

\* Nothing is written before everything has been read.
LEMMA IdleIs ==
    ASSUME LinesAre, Idle
    PROVE  HeaderRead
    BY Heads DEF LinesAre, Idle, BlankAhead, AtStart, InHeader

\* What is written is not in the list before it is read.
LEMMA WritesKeep ==
    ASSUME ConfigInv,
           \/ \E t \in Titles : \E isMenu \in BOOLEAN : WriteHeader(t, isMenu)
           \/ WriteSetting \/ WriteEnd
    PROVE  ConfigInv'
  <1>1. Idle /\ UNCHANGED <<comments, groups, repeated>>
      BY DEF WriteHeader, WriteSetting, WriteEnd, Write, Idle
  <1>2. HeaderRead /\ HeaderRead'
    <2>1. HeaderRead
        BY <1>1, IdleIs DEF ConfigInv
    <2> QED BY <1>1, <2>1 DEF HeaderRead, IsHeader
  <1>3. SettingsRead = 1..settings
      BY <1>1, HasSettingIs DEF SettingsRead
  <1>4. /\ settings \in Nat /\ open \in Seq(Titles) /\ groups \in Lists /\ repeated \in BOOLEAN
        /\ AllSettings(groups) = 1..settings
      BY <1>3 DEF ConfigInv, ConfigTypes, Listed
  <1>5. Listed' <=> SettingsRead' = SettingsRead
      BY <1>1 DEF ConfigInv, Listed, AllSettings, Distinct, AllInOrder
  <1>6. ASSUME NEW t \in Titles, NEW isMenu \in BOOLEAN, WriteHeader(t, isMenu) PROVE ConfigInv'
    <2>1. HeaderAhead(t)' /\ settings' = settings
        BY <1>6 DEF WriteHeader, Write, HeaderAhead
    <2>2. open' \in Seq(Titles)
        BY <1>4, <1>6 DEF WriteHeader
    <2>3. LinesAre'
        BY <1>2, <2>1 DEF LinesAre
    <2>4. ~HasSetting'
        BY <2>1, Domains, KindsAre DEF HeaderAhead, HasSetting
    <2> QED BY <1>1, <1>3, <1>4, <1>5, <2>1, <2>2, <2>3, <2>4 DEF ConfigInv, ConfigTypes, SettingsRead
  <1>7. ASSUME WriteSetting PROVE ConfigInv'
    <2>1. settings' = settings + 1 /\ open' = open /\ SettingAhead'
        BY <1>4, <1>7 DEF WriteSetting, Write, SettingAhead
    <2>2. HasSetting'
        BY <2>1, Domains, KindsAre DEF SettingAhead, HasSetting
    <2>3. SettingsRead' = SettingsRead
        BY <1>3, <1>4, <2>1, <2>2 DEF SettingsRead
    <2>4. LinesAre'
        BY <1>2, <2>1 DEF LinesAre
    <2> QED BY <1>1, <1>4, <1>5, <2>1, <2>3, <2>4 DEF ConfigInv, ConfigTypes
  <1>8. ASSUME WriteEnd PROVE ConfigInv'
    <2>1. open # <<>> /\ open' = Front(open) /\ settings' = settings
        BY <1>8 DEF WriteEnd
    <2>2. Last(open) \in Titles /\ open' \in Seq(Titles)
        BY <1>4, <2>1 DEF Last, Front
    <2>3. PICK t \in Titles : t = Last(open)
        BY <2>2
    <2>4. EndAhead(t)'
        BY <1>8, <2>3 DEF WriteEnd, Write, EndAhead
    <2>5. LinesAre'
        BY <1>2, <2>4 DEF LinesAre
    <2>6. ~HasSetting'
        BY <2>4, Domains, KindsAre DEF EndAhead, HasSetting
    <2> QED BY <1>1, <1>3, <1>4, <1>5, <2>1, <2>2, <2>5, <2>6 DEF ConfigInv, ConfigTypes, SettingsRead
  <1> QED BY <1>6, <1>7, <1>8

\* The list that a line other than a comment leaves.
LEMMA NextListed ==
    ASSUME ConfigInv, NEW w \in Lists, groups' = w, repeated' = Again,
           AllSettings(w) = SettingsRead',
           Distinct(Begun) /\ AllInOrder(Begun) /\ ~Again => Distinct(w) /\ AllInOrder(w)
    PROVE  HeaderRead => Listed'
  <1>1. ASSUME HeaderRead, ~repeated' PROVE Distinct(w) /\ AllInOrder(w)
    <2>1. ~Again /\ ~repeated
        BY <1>1 DEF Again
    <2>2. Distinct(groups) /\ AllInOrder(groups) /\ groups \in Lists
        BY <2>1 DEF ConfigInv, Listed, ConfigTypes
    <2> QED BY <1>1, <2>1, <2>2, BegunIs
  <1>2. AllSettings(groups)' = SettingsRead'
      BY DEF AllSettings
  <1>3. (Distinct(groups) /\ AllInOrder(groups))' <=> Distinct(w) /\ AllInOrder(w)
      BY DEF Distinct, AllInOrder
  <1> QED BY <1>1, <1>2, <1>3 DEF Listed

\* Each line that is read keeps the settings in the list.
LEMMA ReadsKeep ==
    ASSUME ConfigInv, ReadComment \/ ReadLine
    PROVE  ConfigInv'
  <1>1. ConfigTypes /\ LinesAre /\ Listed /\ groups \in Lists /\ settings \in Nat /\ repeated \in BOOLEAN
      BY DEF ConfigInv, ConfigTypes
  <1>2. /\ \/ ReadSetting \/ ReadLast \/ ReadStart
           \/ \E t \in Titles : ReadBlank(t) \/ ReadEnd(t) \/ ReadHeader(t)
        /\ UNCHANGED <<items, open, within, settings>>
      BY <1>1, ReadIsOne
  <1>3. Again \in BOOLEAN
      BY <1>1 DEF Again
  <1>4. Idle' => ~HasSetting'
      BY DEF Idle, HasSetting
  <1>5. comments' = <<>> => HeaderRead'
      BY DEF HeaderRead, IsHeader
  <1>6. ~HasSetting' => SettingsRead' = 1..settings
      BY <1>2 DEF SettingsRead
  <1>7. HeaderRead => Begun \in Lists /\ AllSettings(Begun) = AllSettings(groups)
      BY <1>1, BegunIs
  <1>8. UNCHANGED <<groups, repeated>> /\ SettingsRead' = SettingsRead => ConfigTypes' /\ Listed'
      BY <1>1, <1>2 DEF ConfigTypes, Listed, AllSettings, Distinct, AllInOrder
  <1>9. ASSUME ReadSetting PROVE ConfigInv'
    <2>1. /\ SettingAhead /\ HeaderRead /\ Idle' /\ comments' = <<>>
          /\ groups' = WithSetting(Begun, Setting(settings)) /\ repeated' = Again
        BY <1>9 DEF ReadSetting
    <2>2. SettingsRead = 1..(settings - 1) /\ settings # 0
        BY <2>1, HasSettingIs DEF SettingsRead, SettingAhead
    <2>3. AllSettings(Begun) = 1..(settings - 1)
        BY <1>1, <1>7, <2>1, <2>2 DEF Listed
    <2> DEFINE w == WithSetting(Begun, Setting(settings))
    <2>4. /\ w \in Lists /\ AllSettings(w) = AllSettings(Begun) \cup {settings}
          /\ Distinct(Begun) => Distinct(w)
          /\ AllInOrder(Begun) /\ (\A m \in AllSettings(Begun) : m < settings) => AllInOrder(w)
        BY <1>1, <1>7, <2>1, WithSettingIs
    <2>5. \A m \in AllSettings(Begun) : m < settings
        BY <1>1, <2>3
    <2>6. AllSettings(w) = SettingsRead'
      <3>1. (1..(settings - 1)) \cup {settings} = 1..settings
          BY <1>1, <2>2
      <3> QED BY <1>4, <1>6, <2>1, <2>3, <2>4, <3>1
    <2> HIDE DEF w
    <2>7. groups' = w
        BY <2>1 DEF w
    <2>8. Listed'
        BY <2>1, <2>4, <2>5, <2>6, <2>7, NextListed
    <2>9. ConfigTypes'
        BY <1>1, <1>2, <1>3, <2>1, <2>4, <2>7 DEF ConfigTypes
    <2> QED BY <1>5, <2>1, <2>8, <2>9 DEF ConfigInv, LinesAre
  <1>10. ASSUME ReadLast PROVE ConfigInv'
    <2>1. BlankAhead /\ Idle' /\ comments' = <<>> /\ UNCHANGED <<groups, repeated>>
        BY <1>10 DEF ReadLast
    <2>2. SettingsRead' = SettingsRead
        BY <1>4, <1>6, <2>1, HasSettingIs DEF SettingsRead
    <2> QED BY <1>5, <1>8, <2>1, <2>2 DEF ConfigInv, LinesAre
  <1>11. ASSUME ReadStart PROVE ConfigInv'
    <2>1. AtStart /\ UNCHANGED <<groups, repeated>>
        BY <1>11 DEF ReadStart
    <2>2. CASE AtStart'
      <3>1. ~HasSetting'
          BY <2>2, Domains, KindsAre DEF AtStart, HasSetting
      <3>2. SettingsRead' = SettingsRead
          BY <1>6, <2>1, <3>1, HasSettingIs DEF SettingsRead
      <3> QED BY <1>8, <2>1, <2>2, <3>2 DEF ConfigInv, LinesAre
    <2>3. CASE Idle' /\ comments' = <<Bar, Text(Root), Text(Root), Bar>>
      <3>1. SettingsRead' = SettingsRead
          BY <1>4, <1>6, <2>1, <2>3, HasSettingIs DEF SettingsRead
      <3>2. HeaderRead'
          BY <2>3 DEF HeaderRead, IsHeader
      <3> QED BY <1>8, <2>1, <2>3, <3>1, <3>2 DEF ConfigInv, LinesAre
    <2> QED BY <1>11, <2>2, <2>3 DEF ReadStart
  <1>12. ASSUME NEW t \in Titles, ReadBlank(t) PROVE ConfigInv'
    <2>1. /\ HeaderAhead(t) /\ HeaderRead /\ InHeader(t)' /\ comments' = <<>>
          /\ groups' = Begun /\ repeated' = Again
        BY <1>12 DEF ReadBlank
    <2>2. ~HasSetting'
        BY <2>1, Domains, KindsAre DEF InHeader, HasSetting
    <2>3. SettingsRead' = SettingsRead
        BY <1>6, <2>1, <2>2, HasSettingIs DEF SettingsRead
    <2>4. AllSettings(Begun) = SettingsRead'
        BY <1>1, <1>7, <2>1, <2>3 DEF Listed
    <2>5. Listed'
        BY <1>7, <2>1, <2>4, NextListed
    <2>6. ConfigTypes'
        BY <1>1, <1>2, <1>3, <1>7, <2>1 DEF ConfigTypes
    <2> QED BY <2>1, <2>5, <2>6 DEF ConfigInv, LinesAre
  <1>13. ASSUME NEW t \in Titles, ReadEnd(t) PROVE ConfigInv'
    <2>1. /\ EndAhead(t) /\ HeaderRead /\ BlankAhead'
          /\ groups' = Ended(Begun, t) /\ repeated' = Again
        BY <1>13 DEF ReadEnd
    <2>2. ~HasSetting'
        BY <2>1, Domains, KindsAre DEF BlankAhead, HasSetting
    <2>3. SettingsRead' = SettingsRead
        BY <1>6, <2>1, <2>2, HasSettingIs DEF SettingsRead
    <2>4. t \in Titled
        BY DEF Titled
    <2> DEFINE w == Ended(Begun, t)
    <2>5. AllSettings(w) = SettingsRead'
        BY <1>1, <1>7, <2>1, <2>3, <2>4, EndedSettings DEF Listed
    <2>6. w \in Lists
        BY <1>7, <2>1, <2>4, EndedAt DEF Ended, Moved
    <2>7. Distinct(Begun) /\ AllInOrder(Begun) => Distinct(w) /\ AllInOrder(w)
        BY <1>7, <2>1, <2>4, EndedInOrder
    <2> HIDE DEF w
    <2>8. groups' = w
        BY <2>1 DEF w
    <2>9. Listed'
        BY <2>1, <2>5, <2>6, <2>7, <2>8, NextListed
    <2>10. ConfigTypes'
        BY <1>1, <1>2, <1>3, <2>1, <2>6, <2>8 DEF ConfigTypes
    <2> QED BY <2>1, <2>9, <2>10 DEF ConfigInv, LinesAre
  <1>14. ASSUME NEW t \in Titles, ReadHeader(t) PROVE ConfigInv'
    <2>1. InHeader(t) /\ UNCHANGED <<groups, repeated>>
        BY <1>14 DEF ReadHeader
    <2>2. CASE InHeader(t)'
      <3>1. ~HasSetting'
          BY <2>2, Domains, KindsAre DEF InHeader, HasSetting
      <3>2. SettingsRead' = SettingsRead
          BY <1>6, <2>1, <3>1, HasSettingIs DEF SettingsRead
      <3> QED BY <1>8, <2>1, <2>2, <3>2 DEF ConfigInv, LinesAre
    <2>3. CASE Idle' /\ comments' = <<Bar, Text(t), Bar>>
      <3>1. SettingsRead' = SettingsRead
          BY <1>4, <1>6, <2>1, <2>3, HasSettingIs DEF SettingsRead
      <3>2. HeaderRead'
          BY <2>3 DEF HeaderRead
      <3> QED BY <1>8, <2>1, <2>3, <3>1, <3>2 DEF ConfigInv, LinesAre
    <2> QED BY <1>14, <2>2, <2>3 DEF ReadHeader
  <1> QED BY <1>2, <1>9, <1>10, <1>11, <1>12, <1>13, <1>14

\* ConfigInv is inductive.
LEMMA ConfigInvIs == ConfigSpec => []ConfigInv
  <1>1. ConfigInit => ConfigInv
      BY ConfigInvStart
  <1>2. ASSUME ConfigInv, [ConfigNext]_configVars PROVE ConfigInv'
    <2>1. CASE UNCHANGED configVars
        BY <1>2, <2>1 DEF configVars, configFile, ConfigInv, ConfigTypes, Listed, LinesAre, SettingsRead, HasSetting,
              AllSettings, Distinct, AllInOrder, HeaderRead, IsHeader, Idle, SettingAhead, HeaderAhead, EndAhead,
              BlankAhead, AtStart, InHeader
    <2>2. CASE ConfigNext
        BY <1>2, <2>1, <2>2, WritesKeep, ReadsKeep DEF ConfigNext, ConfigTerminated
    <2> QED BY <1>2, <2>1, <2>2
  <1> QED BY <1>1, <1>2, PTL DEF ConfigSpec

\* Every setting of the file is in the tree of groups, whatever the menus and their
\* names are, once and in the order of the file as long as no name was used again
\* while its group was in the list (collect_data of kernel_config.rs, which moves
\* whole groups at each end of a menu).
THEOREM SettingsAreKept == ConfigSpec => []SettingsKept
  <1>1. ConfigInv => SettingsKept
    <2> SUFFICES ASSUME ConfigInv PROVE SettingsKept
        OBVIOUS
    <2>1. AllSettings(groups) = SettingsRead /\ (~repeated => AllInOrder(groups))
        BY DEF ConfigInv, Listed
    <2>2. UNION {SettingsOf(g.entries) : g \in Range(groups)} = SettingsRead
        BY <2>1 DEF AllSettings
    <2>3. ~repeated => \A i \in DOMAIN groups :
            /\ InOrder(groups[i].entries)
            /\ \A j \in DOMAIN groups : i < j =>
                 \A m \in SettingsOf(groups[i].entries), n \in SettingsOf(groups[j].entries) : m < n
        BY <2>1 DEF AllInOrder
    <2> QED BY <2>2, <2>3 DEF SettingsKept, SettingsRead, HasSetting
  <1> QED BY <1>1, ConfigInvIs, PTL

-----------------------------------------------------------------------------
\* Paths of names.

\* One more name behind a path behind another one.
LEMMA ConcatAppend ==
    ASSUME NEW X, NEW s \in Seq(X), NEW t \in Seq(X), NEW x \in X
    PROVE  Append(s \o t, x) = s \o Append(t, x)
  <1>1. s \o t \in Seq(X) /\ <<x>> \in Seq(X)
      BY ConcatProperties
  <1>2. Append(s \o t, x) = (s \o t) \o <<x>>
      BY ONLY <1>1, AppendIsConcat
  <1>3. (s \o t) \o <<x>> = s \o (t \o <<x>>)
      BY <1>1, ConcatAssociative
  <1>4. Append(t, x) = t \o <<x>>
      BY AppendIsConcat
  <1> QED BY <1>2, <1>3, <1>4

\* The first n menus of o.
Pre(o, n) == SubSeq(o, 1, n)

\* They are as in o, and all of them are o.
LEMMA PreIs ==
    ASSUME NEW X, NEW o \in Seq(X), NEW n \in 0..Len(o)
    PROVE  /\ Pre(o, n) \in Seq(X) /\ Len(Pre(o, n)) = n
           /\ \A j \in 1..n : Pre(o, n)[j] = o[j]
  <1>1. Len(o) \in Nat /\ n \in Nat /\ n <= Len(o)
      OBVIOUS
  <1>2. \A j \in 1..n : o[j] \in X
      BY <1>1
  <1>3. Pre(o, n) = [j \in 1..n |-> o[j]]
      BY <1>1 DEF Pre
  <1> QED BY <1>1, <1>2, <1>3

LEMMA PreAll ==
    ASSUME NEW X, NEW o \in Seq(X)
    PROVE  Pre(o, Len(o)) = o
  <1>1. Len(o) \in 0..Len(o)
      OBVIOUS
  <1>2. Pre(o, Len(o)) \in Seq(X) /\ Len(Pre(o, Len(o))) = Len(o) /\ \A j \in 1..Len(o) : Pre(o, Len(o))[j] = o[j]
      BY <1>1, PreIs
  <1> QED BY ONLY <1>2, SeqEqual, o \in Seq(X)

\* Menus that begin alike, and the last of them.
LEMMA PreSame ==
    ASSUME NEW X, NEW o \in Seq(X), NEW q \in Seq(X), NEW n \in 0..Len(o), n <= Len(q),
           \A j \in 1..n : o[j] = q[j]
    PROVE  Pre(q, n) = Pre(o, n)
  <1>1. n \in 0..Len(q)
      OBVIOUS
  <1>2. Pre(o, n) \in Seq(X) /\ Len(Pre(o, n)) = n /\ \A j \in 1..n : Pre(o, n)[j] = o[j]
      BY PreIs
  <1>3. Pre(q, n) \in Seq(X) /\ Len(Pre(q, n)) = n /\ \A j \in 1..n : Pre(q, n)[j] = q[j]
      BY <1>1, PreIs
  <1>4. \A j \in 1..Len(Pre(q, n)) : Pre(q, n)[j] = Pre(o, n)[j]
      BY <1>2, <1>3
  <1> QED BY ONLY <1>2, <1>3, <1>4, SeqEqual

LEMMA FrontIs ==
    ASSUME NEW X, NEW o \in Seq(X), o # <<>>
    PROVE  /\ Front(o) \in Seq(X) /\ Len(Front(o)) = Len(o) - 1 /\ Len(o) \in Nat \ {0}
           /\ \A j \in 1..(Len(o) - 1) : Front(o)[j] = o[j]
           /\ Last(o) = o[Len(o)] /\ Last(o) \in X
           /\ Append(Front(o), Last(o)) = o
  <1>1. Len(o) \in Nat \ {0} /\ Last(o) = o[Len(o)] /\ Last(o) \in X
      BY DEF Last
  <1>2. Len(o) - 1 \in 0..Len(o)
      BY <1>1
  <1>3. Front(o) = Pre(o, Len(o) - 1)
      BY DEF Front, Pre
  <1>4. Front(o) \in Seq(X) /\ Len(Front(o)) = Len(o) - 1 /\ \A j \in 1..(Len(o) - 1) : Front(o)[j] = o[j]
      BY <1>2, <1>3, PreIs
  <1> DEFINE w == Append(Front(o), Last(o))
             f == Front(o)
             l == Last(o)
  <1>5. w \in Seq(X) /\ Len(w) = Len(f) + 1 /\ w[Len(f) + 1] = l /\ \A i \in 1..Len(f) : w[i] = f[i]
      BY <1>1, <1>4, AppendIs
  <1> HIDE DEF w, f, l
  <1>6. \A i \in 1..Len(w) : w[i] = o[i]
    <2>1. Len(w) = Len(o) /\ Len(f) = Len(o) - 1 /\ l = o[Len(o)] /\ \A i \in 1..(Len(o) - 1) : f[i] = o[i]
        BY <1>1, <1>4, <1>5 DEF f, l
    <2>2. \A i \in 1..Len(o) : i \in 1..(Len(o) - 1) \/ i = Len(o)
        BY <1>1
    <2>3. w[Len(o)] = l
        BY <1>1, <1>5, <2>1
    <2> QED BY <1>5, <2>1, <2>2, <2>3
  <1>7. Len(w) = Len(o)
      BY <1>1, <1>4, <1>5 DEF f
  <1>8. w = o
      BY ONLY <1>5, <1>6, <1>7, o \in Seq(X), SeqEqual
  <1> QED BY <1>1, <1>4, <1>8 DEF w

-----------------------------------------------------------------------------
\* The groups in a group.

\* The groups in a group are known by their paths; entries put together have those
\* of both.
LEMMA NestedIs ==
    ASSUME NEW s \in Seq(Entries)
    PROVE  Nested(s) \in SUBSET Seq(Titled)
  <1>1. Range(s) \in SUBSET Entries
      BY RangeOfSeq
  <1>2. \A e \in Entries : e.item.kind = "group" => Append(e.path, e.item.title) \in Seq(Titled)
    <2> SUFFICES ASSUME NEW e \in Entries, e.item.kind = "group"
                 PROVE  Append(e.path, e.item.title) \in Seq(Titled)
        OBVIOUS
    <2>1. e.path \in Seq(Titled) /\ e.item.title \in Titled
        BY DEF Entries, Items
    <2> QED BY <2>1, AppendIs
  <1> QED BY <1>1, <1>2 DEF Nested

\* Of a group in one of the title t.
LEMMA NestedWithin ==
    ASSUME NEW t \in Titled, NEW h \in Groups
    PROVE  Nested(Within(t, h)) = {Append(<<t>>, h.name)} \cup {<<t>> \o x : x \in Nested(h.entries)}
  <1> DEFINE s == h.entries
             first == [path |-> <<t>>, item |-> Group(h.name)]
             deeper(e) == [path |-> <<t>> \o e.path, item |-> e.item]
             R == Range(s)
             name(e) == Append(e.path, e.item.title)
             grp(e) == e.item.kind = "group"
  <1>1. Range(Within(t, h)) = {first} \cup {deeper(e) : e \in R}
      BY WithinIs
  <1>2. grp(first) /\ name(first) = Append(<<t>>, h.name)
      BY DEF Group
  <1>3. R \in SUBSET Entries
      BY RangeOfSeq DEF Groups
  <1>4. \A e \in R : (grp(deeper(e)) <=> grp(e)) /\ (grp(e) => name(deeper(e)) = <<t>> \o name(e))
    <2> SUFFICES ASSUME NEW e \in R PROVE (grp(deeper(e)) <=> grp(e)) /\ (grp(e) => name(deeper(e)) = <<t>> \o name(e))
        OBVIOUS
    <2>1. deeper(e).path = <<t>> \o e.path /\ deeper(e).item = e.item
        OBVIOUS
    <2>2. ASSUME grp(e) PROVE name(deeper(e)) = <<t>> \o name(e)
      <3>1. e.path \in Seq(Titled) /\ e.item.title \in Titled /\ <<t>> \in Seq(Titled)
          BY <1>3, <2>2 DEF Entries, Items
      <3>2. Append(<<t>> \o e.path, e.item.title) = <<t>> \o Append(e.path, e.item.title)
          BY <3>1, ConcatAppend
      <3> HIDE DEF deeper
      <3> QED BY <2>1, <3>2
    <2> QED BY <2>1, <2>2
  <1>5. Nested(s) = {name(e) : e \in {f \in R : grp(f)}}
      BY DEF Nested
  <1>6. Nested(Within(t, h)) = {name(e) : e \in {f \in Range(Within(t, h)) : grp(f)}}
      BY DEF Nested
  <1> HIDE DEF s, first, deeper, R, name, grp
  <1>7. {name(e) : e \in {f \in Range(Within(t, h)) : grp(f)}} =
            {name(first)} \cup {name(deeper(e)) : e \in {f \in R : grp(f)}}
      BY <1>1, <1>2, <1>4
  <1>8. {name(deeper(e)) : e \in {f \in R : grp(f)}} = {<<t>> \o x : x \in {name(e) : e \in {f \in R : grp(f)}}}
      BY <1>4
  <1> QED BY <1>2, <1>5, <1>6, <1>7, <1>8 DEF s

LEMMA NestedMany ==
    ASSUME NEW s \in Seq(Entries), NEW t \in Seq(Entries)
    PROVE  Nested(s \o t) = Nested(s) \cup Nested(t)
  <1>1. Range(s \o t) = Range(s) \cup Range(t)
      BY RangeOfConcat
  <1> QED BY <1>1 DEF Nested

LEMMA NestedInside ==
    ASSUME NEW g \in Lists, NEW t \in Titled, NEW i \in Matching(g, t)
    PROVE  Nested(Inside(g, t, i)) = UNION {Nested(Within(t, g[i + k])) : k \in 1..Following(g, t, i)}
  <1> DEFINE W(k) == Within(t, g[i + k])
             K == 1..Following(g, t, i)
  <1>1. Range(Inside(g, t, i)) = UNION {Range(W(k)) : k \in K}
      BY InsideIs
  <1> HIDE DEF W, K
  <1>2. Nested(Inside(g, t, i)) = UNION {Nested(W(k)) : k \in K}
      BY <1>1 DEF Nested
  <1> QED BY <1>2 DEF W, K

-----------------------------------------------------------------------------
\* The groups in the list, the menus around them and what they contain.

\* What a group with the first n menus of o around it has in within.
Share(o, n, h) == (IF n = 0 THEN {} ELSE {Append(Pre(o, n), h.name)}) \cup
                  {Pre(o, n) \o x : x \in Nested(h.entries)}

\* Group i of the list has the first d[i] menus of o around it.
Found(g, o, d) == UNION {Share(o, d[i], g[i]) : i \in 1..Len(g)}

\* The group of menu j of o is at p[j] in the list, and the menu is around
\* all groups after it.
Placed(g, o, w, p, d) ==
    /\ \A j \in 1..Len(o) : g[p[j]].name = o[j] /\ d[p[j]] = j - 1
    /\ \A j \in 1..Len(o), i \in 1..Len(g) : p[j] < i <=> j <= d[i]
    /\ w = Found(g, o, d)

\* A list that stands for the open menus o and the nesting w.
StandsFor(g, o, w) ==
    /\ o \in Seq(Titles) /\ Distinct(g)
    /\ \E p \in [1..Len(o) -> 1..Len(g)], d \in [1..Len(g) -> 0..Len(o)] : Placed(g, o, w, p, d)

\* No menu is open: within is what is in the groups.
LEMMA NoneOpen ==
    ASSUME NEW g \in Lists, NEW w, StandsFor(g, <<>>, w)
    PROVE  UNION {Nested(h.entries) : h \in Range(g)} = w
  <1>1. PICK p \in [1..Len(<<>>) -> 1..Len(g)], d \in [1..Len(g) -> 0..Len(<<>>)] : Placed(g, <<>>, w, p, d)
      BY DEF StandsFor
  <1>2. \A i \in 1..Len(g) : d[i] = 0
    <2>1. Len(<<>>) = 0 /\ 0..0 = {0}
        OBVIOUS
    <2> QED BY <1>1, <2>1
  <1>3. \A h \in Groups : Share(<<>>, 0, h) = Nested(h.entries)
    <2> SUFFICES ASSUME NEW h \in Groups PROVE Share(<<>>, 0, h) = Nested(h.entries)
        OBVIOUS
    <2>1. Pre(<<>>, 0) = <<>>
        BY DEF Pre
    <2>2. Nested(h.entries) \in SUBSET Seq(Titled)
        BY NestedIs DEF Groups
    <2>3. \A x \in Nested(h.entries) : <<>> \o x = x
        BY <2>2, ConcatEmptySeq
    <2>4. {<<>> \o x : x \in Nested(h.entries)} = Nested(h.entries)
        BY ONLY <2>3
    <2> QED BY <2>1, <2>4 DEF Share
  <1>4. w = UNION {Share(<<>>, d[i], g[i]) : i \in 1..Len(g)}
      BY <1>1 DEF Placed, Found
  <1>5. w = UNION {Nested(g[i].entries) : i \in 1..Len(g)}
      BY <1>2, <1>3, <1>4, ListIs
  <1>6. Range(g) = {g[i] : i \in 1..Len(g)}
      BY ListIs DEF Range
  <1> QED BY <1>5, <1>6

\* The header of the title t, of a menu or a comment, in the menus o.
Begins(o, w, t, o1, w1) == /\ o1 \in {o, Append(o, t)}
                           /\ w1 = IF o = <<>> THEN w ELSE w \cup {Append(o, t)}

\* A header that is read does to the list what it does to the menus.
LEMMA StandsGrown ==
    ASSUME NEW g \in Lists, NEW o, NEW w, NEW o1, NEW w1, NEW t \in Titles,
           StandsFor(g, o, w), Begins(o, w, t, o1, w1), Matching(g, t) = {}
    PROVE  StandsFor(Grown(g, t), o1, w1)
  <1> DEFINE N == Len(g)
             M == Len(o)
             q == Grown(g, t)
             K == Len(o1)
  <1>1. PICK p \in [1..M -> 1..N], d \in [1..N -> 0..M] : Placed(g, o, w, p, d)
      BY DEF StandsFor
  <1>2. /\ o \in Seq(Titles) /\ Distinct(g) /\ t \in Titled /\ M \in Nat /\ N \in Nat \ {0}
        /\ \A j \in 1..M : g[p[j]].name = o[j] /\ d[p[j]] = j - 1
        /\ \A j \in 1..M, i \in 1..N : p[j] < i <=> j <= d[i]
        /\ w = UNION {Share(o, d[i], g[i]) : i \in 1..N}
    <2>1. o \in Seq(Titles) /\ Distinct(g)
        BY DEF StandsFor
    <2>2. M \in Nat /\ N \in Nat \ {0} /\ t \in Titled
        BY <2>1, ListIs DEF Titled
    <2>3. /\ \A j \in 1..M : g[p[j]].name = o[j] /\ d[p[j]] = j - 1
          /\ \A j \in 1..M, i \in 1..N : p[j] < i <=> j <= d[i]
          /\ w = UNION {Share(o, d[i], g[i]) : i \in 1..N}
        BY <1>1 DEF Placed, Found
    <2> QED BY <2>1, <2>2, <2>3
  <1>3. /\ q \in Lists /\ Len(q) = N + 1 /\ Distinct(q)
        /\ \A i \in 1..N : q[i] = g[i]
        /\ q[N + 1] = [name |-> t, entries |-> <<>>]
      BY <1>2, GrownIs
  <1>4. /\ o1 \in Seq(Titles) /\ K \in M..(M + 1)
        /\ \A j \in 1..M : o1[j] = o[j]
        /\ K = M + 1 => o1[M + 1] = t
    <2>1. CASE o1 = o
        BY <1>2, <2>1
    <2>2. CASE o1 = Append(o, t)
      <3>1. /\ o1 \in Seq(Titles) /\ Len(o1) = Len(o) + 1 /\ o1[Len(o) + 1] = t
            /\ \A j \in 1..Len(o) : o1[j] = o[j]
          BY <1>2, <2>2, AppendIs
      <3> QED BY <1>2, <3>1
    <2> QED BY <2>1, <2>2 DEF Begins
  <1> HIDE DEF N, M, q, K
  <1> DEFINE p1 == [j \in 1..K |-> IF j <= M THEN p[j] ELSE N + 1]
             d1 == [i \in 1..(N + 1) |-> IF i <= N THEN d[i] ELSE M]
  <1>5. \A j \in 1..K : (j <= M => j \in 1..M) /\ (~(j <= M) => j = M + 1 /\ K = M + 1)
      BY <1>2, <1>4
  <1>6. \A i \in 1..(N + 1) : (i <= N => i \in 1..N) /\ (~(i <= N) => i = N + 1)
      BY <1>2
  <1>7. p1 \in [1..K -> 1..(N + 1)] /\ \A j \in 1..K : p1[j] = IF j <= M THEN p[j] ELSE N + 1
    <2>1. \A j \in 1..K : (IF j <= M THEN p[j] ELSE N + 1) \in 1..(N + 1)
        BY <1>2, <1>5
    <2> QED BY <2>1
  <1>8. d1 \in [1..(N + 1) -> 0..K] /\ \A i \in 1..(N + 1) : d1[i] = IF i <= N THEN d[i] ELSE M
    <2>1. 0..M \in SUBSET (0..K) /\ M \in 0..K
        BY <1>2, <1>4
    <2>2. \A i \in 1..(N + 1) : (IF i <= N THEN d[i] ELSE M) \in 0..K
        BY <1>6, <2>1
    <2> QED BY <2>2
  <1> HIDE DEF p1, d1
  <1>9. \A j \in 1..K : q[p1[j]].name = o1[j] /\ d1[p1[j]] = j - 1
    <2> SUFFICES ASSUME NEW j \in 1..K PROVE q[p1[j]].name = o1[j] /\ d1[p1[j]] = j - 1
        OBVIOUS
    <2>1. CASE j <= M
      <3>1. j \in 1..M /\ p1[j] = p[j] /\ p[j] \in 1..N
          BY <1>5, <1>7, <2>1
      <3>2. p[j] \in 1..(N + 1) /\ p[j] <= N
          BY <1>2, <3>1
      <3>3. q[p[j]] = g[p[j]] /\ d1[p[j]] = d[p[j]]
          BY <1>3, <1>8, <3>1, <3>2
      <3> QED BY <1>2, <1>4, <3>1, <3>3
    <2>2. CASE ~(j <= M)
      <3>1. j = M + 1 /\ K = M + 1 /\ p1[j] = N + 1
          BY <1>5, <1>7, <2>2
      <3>2. d1[N + 1] = M
        <4>1. N + 1 \in 1..(N + 1) /\ ~(N + 1 <= N)
            BY <1>2
        <4> QED BY <1>8, <4>1
      <3> QED BY <1>2, <1>3, <1>4, <3>1, <3>2
    <2> QED BY <2>1, <2>2
  <1>10. \A j \in 1..K, i \in 1..(N + 1) : p1[j] < i <=> j <= d1[i]
    <2> SUFFICES ASSUME NEW j \in 1..K, NEW i \in 1..(N + 1) PROVE p1[j] < i <=> j <= d1[i]
        OBVIOUS
    <2>1. CASE j <= M /\ i <= N
      <3>1. j \in 1..M /\ i \in 1..N /\ p1[j] = p[j] /\ d1[i] = d[i]
          BY <1>5, <1>6, <1>7, <1>8, <2>1
      <3> QED BY <1>2, <3>1
    <2>2. CASE j <= M /\ ~(i <= N)
      <3>1. j \in 1..M /\ i = N + 1 /\ p1[j] = p[j] /\ d1[i] = M /\ p[j] \in 1..N
          BY <1>5, <1>6, <1>7, <1>8, <2>2
      <3> QED BY <1>2, <3>1
    <2>3. CASE ~(j <= M)
      <3>1. p1[j] = N + 1 /\ j = M + 1
          BY <1>5, <1>7, <2>3
      <3>2. d1[i] <= M /\ d1[i] \in Int
        <4>1. i <= N => d[i] \in 0..M
            BY <1>6
        <4>2. d1[i] \in 0..M
            BY <1>2, <1>8, <4>1
        <4> QED BY <1>2, <4>2
      <3> QED BY <1>2, <3>1, <3>2
    <2> QED BY <2>1, <2>2, <2>3
  <1>11. \A i \in 1..N : Share(o1, d1[i], q[i]) = Share(o, d[i], g[i])
    <2> SUFFICES ASSUME NEW i \in 1..N PROVE Share(o1, d1[i], q[i]) = Share(o, d[i], g[i])
        OBVIOUS
    <2>1. i \in 1..(N + 1) /\ i <= N
        BY <1>2
    <2>2. d1[i] = d[i] /\ q[i] = g[i] /\ d[i] \in 0..Len(o) /\ d[i] <= Len(o1)
      <3>1. d1[i] = d[i] /\ q[i] = g[i] /\ d[i] \in 0..M
          BY <1>3, <1>8, <2>1
      <3> QED BY <1>2, <1>4, <3>1 DEF M, K
    <2>3. \A j \in 1..d[i] : o[j] = o1[j]
      <3>1. \A j \in 1..d[i] : j \in 1..M
          BY <1>2, <2>2 DEF M
      <3> QED BY <1>4, <3>1
    <2>4. Pre(o1, d[i]) = Pre(o, d[i])
      <3>1. o \in Seq(Titles) /\ o1 \in Seq(Titles)
          BY <1>2, <1>4
      <3> QED BY ONLY <2>2, <2>3, <3>1, PreSame
    <2>5. Share(o1, d[i], g[i]) = Share(o, d[i], g[i])
        BY <2>4 DEF Share
    <2> QED BY <2>2, <2>5
  <1>12. Share(o1, d1[N + 1], q[N + 1]) = IF o = <<>> THEN {} ELSE {Append(o, t)}
    <2>1. d1[N + 1] = M
      <3>1. N + 1 \in 1..(N + 1) /\ ~(N + 1 <= N)
          BY <1>2
      <3> QED BY <1>8, <3>1
    <2>2. Pre(o1, M) = o
      <3>1. M \in 0..Len(o) /\ M <= Len(o1)
          BY <1>2, <1>4 DEF M, K
      <3>2. Pre(o1, M) = Pre(o, M)
          BY <1>2, <1>4, <3>1, PreSame
      <3>3. Pre(o, M) = o
          BY <1>2, PreAll DEF M
      <3> QED BY <3>2, <3>3
    <2>3. Nested(<<>>) = {}
        BY DEF Nested, Range
    <2>4. M = 0 <=> o = <<>>
        BY <1>2 DEF M
    <2> QED BY <1>3, <2>1, <2>2, <2>3, <2>4 DEF Share
  <1>13. w1 = Found(q, o1, d1)
    <2> DEFINE old(i) == Share(o, d[i], g[i])
               new(i) == Share(o1, d1[i], q[i])
    <2>1. 1..(N + 1) = (1..N) \cup {N + 1}
        BY <1>2
    <2>2. (\A i \in 1..N : new(i) = old(i)) /\ w = UNION {old(i) : i \in 1..N}
        BY <1>2, <1>11
    <2> HIDE DEF old, new
    <2>3. UNION {new(i) : i \in 1..(N + 1)} = w \cup new(N + 1)
        BY ONLY <2>1, <2>2
    <2>4. Found(q, o1, d1) = w \cup Share(o1, d1[N + 1], q[N + 1])
        BY <1>3, <2>3 DEF Found, new
    <2>5. w1 = w \cup IF o = <<>> THEN {} ELSE {Append(o, t)}
        BY DEF Begins
    <2> QED BY <1>12, <2>4, <2>5
  <1>14. Placed(q, o1, w1, p1, d1)
      BY <1>3, <1>9, <1>10, <1>13 DEF Placed, K
  <1> QED BY <1>3, <1>4, <1>7, <1>8, <1>14 DEF StandsFor, K, q

\* A setting changes neither names nor nesting.
LEMMA StandsSame ==
    ASSUME NEW g \in Lists, NEW q \in Lists, NEW o, NEW w, StandsFor(g, o, w), Len(q) = Len(g),
           \A i \in 1..Len(g) : q[i].name = g[i].name /\ Nested(q[i].entries) = Nested(g[i].entries)
    PROVE  StandsFor(q, o, w)
  <1> DEFINE N == Len(g)
             M == Len(o)
  <1>1. PICK p \in [1..M -> 1..N], d \in [1..N -> 0..M] : Placed(g, o, w, p, d)
      BY DEF StandsFor
  <1>2. Len(q) = N /\ \A i \in 1..N : q[i].name = g[i].name
      OBVIOUS
  <1>3. \A i \in 1..N : Share(o, d[i], q[i]) = Share(o, d[i], g[i])
      BY DEF Share
  <1>4. DOMAIN q = DOMAIN g /\ DOMAIN g = 1..N
      BY <1>2, ListIs
  <1> HIDE DEF N, M
  <1>5. \A j \in 1..M : q[p[j]].name = g[p[j]].name
      BY <1>2
  <1>6. Found(q, o, d) = Found(g, o, d)
      BY <1>2, <1>3 DEF Found, N
  <1>7. Distinct(q)
      BY <1>2, <1>4 DEF Distinct, StandsFor
  <1>8. Placed(q, o, w, p, d)
      BY <1>1, <1>2, <1>5, <1>6 DEF Placed, M, N
  <1> QED BY <1>2, <1>7, <1>8 DEF StandsFor, M, N

LEMMA StandsSetting ==
    ASSUME NEW g \in Lists, NEW o, NEW w, NEW n \in Nat, StandsFor(g, o, w)
    PROVE  StandsFor(WithSetting(g, Setting(n)), o, w)
  <1> DEFINE q == WithSetting(g, Setting(n))
             N == Len(g)
  <1>1. /\ q \in Lists /\ Len(q) = N
        /\ \A i \in 1..N : q[i].name = g[i].name /\ (i # N => q[i].entries = g[i].entries)
        /\ Nested(q[N].entries) = Nested(g[N].entries)
      BY WithSettingIs
  <1>2. \A i \in 1..N : Nested(q[i].entries) = Nested(g[i].entries)
      BY <1>1
  <1> HIDE DEF q
  <1>3. StandsFor(q, o, w)
      BY <1>1, <1>2, StandsSame
  <1> QED BY <1>3 DEF q

\* A menu ends: what is behind its group is in it.
LEMMA EndedAround ==
    ASSUME NEW g \in Lists, NEW t \in Titled, NEW K \in Matching(g, t), Distinct(g)
    PROVE  LET e == Ended(g, t)
           IN /\ e \in Lists /\ Distinct(e) /\ Len(e) = K
              /\ \A i \in 1..K : e[i].name = g[i].name
              /\ \A i \in 1..(K - 1) : Nested(e[i].entries) = Nested(g[i].entries)
              /\ Nested(e[K].entries) = Nested(g[K].entries) \cup
                                        UNION {Nested(Within(t, g[i])) : i \in (K + 1)..Len(g)}
  <1> DEFINE e == Ended(g, t)
             N == Len(g)
  <1>1. N \in Nat \ {0} /\ DOMAIN g = 1..N /\ K \in 1..N /\ g[K].name = t /\ Last(g) = g[N]
      BY ListIs DEF Matching
  <1>2. \A i \in 1..N : g[i].name = t => i = K
      BY <1>1 DEF Distinct
  <1>3. CASE ~Moved(g, t)
    <2>1. e = g /\ K = N
      <3>1. g[N].name = t
          BY <1>1, <1>3 DEF Moved
      <3> QED BY <1>1, <1>2, <1>3, <3>1 DEF Ended, Moved
    <2>2. (K + 1)..N = {}
        BY <1>1, <2>1
    <2> HIDE DEF e, N
    <2> QED BY <1>1, <2>1, <2>2 DEF e, N
  <1>4. CASE Moved(g, t)
    <2> DEFINE kept == Kept(g, t)
    <2>1. kept = K
      <3>1. kept \in 1..N /\ g[kept].name = t
          BY <1>4, KeptIs DEF Moved, Matching
      <3> QED BY <1>2, <3>1
    <2>2. e \in Lists /\ Len(e) = K /\ \A i \in 1..K : e[i].name = g[i].name
        BY <1>4, <2>1, EndedAt
    <2>3. /\ Distinct(e) /\ \A i \in 1..(K - 1) : e[i].entries = g[i].entries
          /\ e[K].entries = g[K].entries \o Inside(g, t, K)
          /\ K + Following(g, t, K) = N
        BY <1>4, <2>1, EndedDistinct
    <2>4. g[K].entries \in Seq(Entries) /\ Inside(g, t, K) \in Seq(Entries)
        BY <1>1, ListIs, InsideIs
    <2>5. Nested(e[K].entries) = Nested(g[K].entries) \cup Nested(Inside(g, t, K))
        BY <2>3, <2>4, NestedMany
    <2>6. Nested(Inside(g, t, K)) = UNION {Nested(Within(t, g[K + k])) : k \in 1..Following(g, t, K)}
        BY NestedInside
    <2>7. UNION {Nested(Within(t, g[K + k])) : k \in 1..Following(g, t, K)} =
              UNION {Nested(Within(t, g[i])) : i \in (K + 1)..N}
      <3> DEFINE in(i) == Nested(Within(t, g[i]))
                 F == Following(g, t, K)
      <3>1. F \in Nat /\ K + F = N /\ K \in Nat
          BY <1>1, <2>3, FollowingIs
      <3> HIDE DEF in, F, N
      <3>2. \A k \in 1..F : K + k \in (K + 1)..N
          BY <3>1
      <3>3. \A i \in (K + 1)..N : i - K \in 1..F /\ K + (i - K) = i
          BY <3>1
      <3>4. UNION {in(K + k) : k \in 1..F} = UNION {in(i) : i \in (K + 1)..N}
        <4>1. \A k \in 1..F : \E i \in (K + 1)..N : in(K + k) = in(i)
            BY ONLY <3>2
        <4>2. \A i \in (K + 1)..N : \E k \in 1..F : in(i) = in(K + k)
            BY ONLY <3>3
        <4> QED BY ONLY <4>1, <4>2
      <3> QED BY <3>4 DEF in, F
    <2> HIDE DEF e, N
    <2> QED BY <2>2, <2>3, <2>5, <2>6, <2>7 DEF e, N
  <1> QED BY <1>3, <1>4

\* The end of the innermost menu does to the list what it does to the menus: the
\* groups behind the menu's own are those with all of the menus around them.
LEMMA StandsEnded ==
    ASSUME NEW g \in Lists, NEW o, NEW w, StandsFor(g, o, w), o # <<>>
    PROVE  StandsFor(Ended(g, Last(o)), Front(o), w)
  <1> DEFINE N == Len(g)
             M == Len(o)
             t == Last(o)
             f == Front(o)
             e == Ended(g, t)
  <1>1. PICK p \in [1..M -> 1..N], d \in [1..N -> 0..M] : Placed(g, o, w, p, d)
      BY DEF StandsFor
  <1>2. o \in Seq(Titles) /\ Distinct(g) /\ N \in Nat \ {0}
      BY ListIs DEF StandsFor
  <1>3. /\ f \in Seq(Titles) /\ Len(f) = M - 1 /\ M \in Nat \ {0}
        /\ \A j \in 1..(M - 1) : f[j] = o[j]
        /\ t = o[M] /\ t \in Titles /\ Append(f, t) = o
      BY <1>2, FrontIs
  <1>4. /\ \A j \in 1..M : g[p[j]].name = o[j] /\ d[p[j]] = j - 1
        /\ \A j \in 1..M, i \in 1..N : p[j] < i <=> j <= d[i]
        /\ w = UNION {Share(o, d[i], g[i]) : i \in 1..N}
      BY <1>1 DEF Placed, Found
  <1>5. t \in Titled
      BY <1>3 DEF Titled
  <1> HIDE DEF N, M, t, f
  <1> DEFINE K == p[M]
  <1>6. M \in 1..M /\ K \in 1..N /\ g[K].name = t /\ d[K] = M - 1
      BY <1>3, <1>4
  <1>7. K \in Matching(g, t)
      BY <1>6 DEF Matching, N
  <1>8. \A j \in 1..M, i \in 1..N : /\ p[j] \in Int /\ d[i] \in 0..M
      BY <1>2
  <1> HIDE DEF K
  <1>9. /\ e \in Lists /\ Distinct(e) /\ Len(e) = K
        /\ \A i \in 1..K : e[i].name = g[i].name
        /\ \A i \in 1..(K - 1) : Nested(e[i].entries) = Nested(g[i].entries)
        /\ Nested(e[K].entries) = Nested(g[K].entries) \cup
                                  UNION {Nested(Within(t, g[i])) : i \in (K + 1)..N}
    <2>1. g \in Lists /\ t \in Titled /\ K \in Matching(g, t) /\ Distinct(g)
        BY <1>2, <1>5, <1>7
    <2> QED BY ONLY <2>1, EndedAround DEF N
  <1> HIDE DEF e
  \* The groups that stay.
  <1>10. \A j \in 1..(M - 1) : j \in 1..M /\ p[j] \in 1..K
    <2> SUFFICES ASSUME NEW j \in 1..(M - 1) PROVE j \in 1..M /\ p[j] \in 1..K
        OBVIOUS
    <2>1. j \in 1..M /\ j <= M - 1
        BY <1>3
    <2>2. p[j] < K
        BY <1>4, <1>6, <2>1
    <2>3. p[j] \in 1..N /\ K \in 1..N
        BY <1>6, <2>1
    <2> QED BY <1>2, <2>1, <2>2, <2>3
  <1>11. \A i \in 1..K : i \in 1..N /\ d[i] \in 0..(M - 1)
    <2> SUFFICES ASSUME NEW i \in 1..K PROVE i \in 1..N /\ d[i] \in 0..(M - 1)
        OBVIOUS
    <2>1. i \in 1..N /\ ~(K < i)
        BY <1>2, <1>6
    <2>2. ~(M <= d[i])
        BY <1>4, <1>6, <2>1 DEF K
    <2>3. d[i] \in 0..M
        BY <1>8, <1>6, <2>1
    <2> QED BY <1>3, <2>1, <2>2, <2>3
  <1>12. \A i \in (K + 1)..N : i \in 1..N /\ d[i] = M
    <2> SUFFICES ASSUME NEW i \in (K + 1)..N PROVE i \in 1..N /\ d[i] = M
        OBVIOUS
    <2>1. i \in 1..N /\ K < i
        BY <1>2, <1>6
    <2>2. M <= d[i]
        BY <1>4, <1>6, <2>1 DEF K
    <2>3. d[i] \in 0..M
        BY <1>8, <1>6, <2>1
    <2> QED BY <1>3, <2>1, <2>2, <2>3
  <1> DEFINE p1 == [j \in 1..(M - 1) |-> p[j]]
             d1 == [i \in 1..K |-> d[i]]
  <1>13. p1 \in [1..(M - 1) -> 1..K] /\ \A j \in 1..(M - 1) : p1[j] = p[j]
      BY <1>10
  <1>14. d1 \in [1..K -> 0..(M - 1)] /\ \A i \in 1..K : d1[i] = d[i]
      BY <1>11
  <1> HIDE DEF p1, d1
  <1>15. \A n \in 0..(M - 1) : Pre(f, n) = Pre(o, n)
    <2> SUFFICES ASSUME NEW n \in 0..(M - 1) PROVE Pre(f, n) = Pre(o, n)
        OBVIOUS
    <2>1. n \in 0..Len(o) /\ n <= Len(f)
        BY <1>3 DEF M
    <2>2. \A j \in 1..n : o[j] = f[j]
        BY <1>3
    <2>3. o \in Seq(Titles) /\ f \in Seq(Titles)
        BY <1>2, <1>3
    <2> QED BY ONLY <2>1, <2>2, <2>3, PreSame
  <1>16. Pre(o, M) = o /\ Pre(f, M - 1) = f
    <2>1. Pre(o, M) = o
        BY <1>2, PreAll DEF M
    <2>2. Pre(f, M - 1) = f
        BY <1>3, PreAll
    <2> QED BY <2>1, <2>2
  <1>17. \A i \in 1..(K - 1) : i \in 1..K /\ Share(f, d1[i], e[i]) = Share(o, d[i], g[i])
    <2> SUFFICES ASSUME NEW i \in 1..(K - 1)
                 PROVE  i \in 1..K /\ Share(f, d1[i], e[i]) = Share(o, d[i], g[i])
        OBVIOUS
    <2>1. i \in 1..K
        BY <1>6
    <2>2. d1[i] = d[i] /\ Pre(f, d[i]) = Pre(o, d[i]) /\ e[i].name = g[i].name
        BY <1>9, <1>11, <1>14, <1>15, <2>1
    <2>3. Nested(e[i].entries) = Nested(g[i].entries)
        BY <1>9
    <2> QED BY <2>1, <2>2, <2>3 DEF Share
  \* What is in a group that is put into the menu's.
  <1>18. \A i \in (K + 1)..N : {f \o x : x \in Nested(Within(t, g[i]))} = Share(o, d[i], g[i])
    <2> SUFFICES ASSUME NEW i \in (K + 1)..N
                 PROVE  {f \o x : x \in Nested(Within(t, g[i]))} = Share(o, d[i], g[i])
        OBVIOUS
    <2> DEFINE h == g[i]
               S == Nested(h.entries)
    <2>1. h \in Groups /\ h.name \in Titled /\ h.entries \in Seq(Entries)
        BY <1>12, ListIs DEF N
    <2>2. S \in SUBSET Seq(Titled)
        BY <2>1, NestedIs
    <2>3. f \in Seq(Titled) /\ <<t>> \in Seq(Titled) /\ f \o <<t>> = o
      <3>1. f \in Seq(Titled)
          BY <1>3 DEF Titled
      <3>2. Append(f, t) = f \o <<t>>
          BY <1>5, <3>1, AppendIsConcat
      <3>3. <<t>> \in Seq(Titled)
          BY <1>5
      <3>4. Append(f, t) = o
          BY <1>3
      <3> QED BY ONLY <3>1, <3>2, <3>3, <3>4
    <2>4. f \o Append(<<t>>, h.name) = Append(o, h.name)
        BY <2>1, <2>3, ConcatAppend
    <2>5. \A x \in S : f \o (<<t>> \o x) = o \o x
      <3> SUFFICES ASSUME NEW x \in S PROVE f \o (<<t>> \o x) = o \o x
          OBVIOUS
      <3>1. x \in Seq(Titled)
          BY <2>2
      <3>2. (f \o <<t>>) \o x = f \o (<<t>> \o x)
          BY <2>3, <3>1, ConcatAssociative
      <3> QED BY <2>3, <3>2
    <2>6. Nested(Within(t, h)) = {Append(<<t>>, h.name)} \cup {<<t>> \o x : x \in S}
        BY <1>5, <2>1, NestedWithin
    <2> HIDE DEF h, S
    <2>7. {f \o y : y \in Nested(Within(t, h))} = {f \o Append(<<t>>, h.name)} \cup {f \o (<<t>> \o x) : x \in S}
        BY ONLY <2>6
    <2>8. {f \o (<<t>> \o x) : x \in S} = {o \o x : x \in S}
        BY ONLY <2>5
    <2>9. d[i] = M /\ M # 0
        BY <1>3, <1>12
    <2>10. Share(o, d[i], h) = {Append(o, h.name)} \cup {o \o x : x \in S}
        BY <1>16, <2>9 DEF Share, S
    <2> QED BY <2>4, <2>7, <2>8, <2>10 DEF h
  <1>19. Share(f, d1[K], e[K]) = Share(o, d[K], g[K]) \cup UNION {Share(o, d[i], g[i]) : i \in (K + 1)..N}
    <2> DEFINE A == Nested(g[K].entries)
               B(i) == Nested(Within(t, g[i]))
               I == (K + 1)..N
               s(i) == Share(o, d[i], g[i])
    <2>1. K \in 1..K
        BY <1>6
    <2>2. d1[K] = M - 1 /\ e[K].name = g[K].name /\ Pre(o, M - 1) = f
      <3>1. M - 1 \in 0..(M - 1)
          BY <1>3
      <3>2. Pre(o, M - 1) = f
          BY <1>15, <1>16, <3>1
      <3> QED BY <1>6, <1>9, <1>14, <2>1, <3>2
    <2>3. Nested(e[K].entries) = A \cup UNION {B(i) : i \in I}
        BY <1>9
    <2>4. \A i \in I : {f \o x : x \in B(i)} = s(i)
        BY <1>18
    <2> HIDE DEF A, B, I, s
    <2>5. {f \o x : x \in A \cup UNION {B(i) : i \in I}} = {f \o x : x \in A} \cup UNION {s(i) : i \in I}
      <3> DEFINE F(x) == f \o x
      <3>1. \A i \in I : {F(x) : x \in B(i)} = s(i)
          BY ONLY <2>4
      <3> HIDE DEF F
      <3>2. \A x \in A : F(x) \in {F(y) : y \in A}
          OBVIOUS
      <3>3. \A i \in I : \A x \in B(i) : F(x) \in s(i)
          BY ONLY <3>1
      <3>4. \A i \in I : \A y \in s(i) : \E x \in B(i) : y = F(x)
          BY ONLY <3>1
      <3>5. {F(x) : x \in A \cup UNION {B(i) : i \in I}} = {F(x) : x \in A} \cup UNION {s(i) : i \in I}
          BY ONLY <3>2, <3>3, <3>4
      <3> QED BY <3>5 DEF F
    <2>6. Share(o, d[K], g[K]) = (IF M - 1 = 0 THEN {} ELSE {Append(f, g[K].name)}) \cup {f \o x : x \in A}
        BY <1>6, <2>2 DEF Share, A
    <2>7. Share(f, d1[K], e[K]) = (IF M - 1 = 0 THEN {} ELSE {Append(f, g[K].name)}) \cup
                                  {f \o x : x \in Nested(e[K].entries)}
        BY <1>16, <2>2 DEF Share
    <2> QED BY <2>3, <2>5, <2>6, <2>7 DEF I, s
  <1>20. w = Found(e, f, d1)
    <2> DEFINE old(i) == Share(o, d[i], g[i])
               new(i) == Share(f, d1[i], e[i])
    <2>1. 1..K = (1..(K - 1)) \cup {K} /\ 1..N = (1..(K - 1)) \cup {K} \cup ((K + 1)..N)
        BY <1>2, <1>6
    <2>2. \A i \in 1..(K - 1) : new(i) = old(i)
        BY <1>17
    <2>3. new(K) = old(K) \cup UNION {old(i) : i \in (K + 1)..N}
        BY <1>19
    <2> HIDE DEF old, new
    <2>4. UNION {new(i) : i \in 1..K} = UNION {old(i) : i \in 1..N}
      <3>1. UNION {new(i) : i \in 1..K} = (UNION {new(i) : i \in 1..(K - 1)}) \cup new(K)
          BY ONLY <2>1
      <3>2. UNION {old(i) : i \in 1..N} =
                (UNION {old(i) : i \in 1..(K - 1)}) \cup old(K) \cup UNION {old(i) : i \in (K + 1)..N}
          BY ONLY <2>1
      <3>3. {new(i) : i \in 1..(K - 1)} = {old(i) : i \in 1..(K - 1)}
          BY ONLY <2>2
      <3> QED BY ONLY <2>3, <3>1, <3>2, <3>3
    <2> QED BY <1>4, <1>9, <2>4 DEF Found, old, new
  <1>21. Placed(e, f, w, p1, d1)
    <2>1. \A j \in 1..(M - 1) : e[p1[j]].name = f[j] /\ d1[p1[j]] = j - 1
      <3> SUFFICES ASSUME NEW j \in 1..(M - 1) PROVE e[p1[j]].name = f[j] /\ d1[p1[j]] = j - 1
          OBVIOUS
      <3>1. j \in 1..M /\ p[j] \in 1..K /\ p1[j] = p[j]
          BY <1>10, <1>13
      <3>2. e[p[j]].name = g[p[j]].name /\ d1[p[j]] = d[p[j]] /\ f[j] = o[j]
          BY <1>3, <1>9, <1>14, <3>1
      <3> QED BY <1>4, <3>1, <3>2
    <2>2. \A j \in 1..(M - 1), i \in 1..K : p1[j] < i <=> j <= d1[i]
        BY <1>4, <1>10, <1>11, <1>13, <1>14
    <2> QED BY <1>3, <1>9, <1>20, <2>1, <2>2 DEF Placed
  <1>22. StandsFor(e, f, w)
      BY <1>3, <1>9, <1>13, <1>14, <1>21 DEF StandsFor
  <1> QED BY <1>22 DEF e, t, f

\* o1 and w1 are o and w after the header that has been read, if there is one.
Pending(o, w, o1, w1) ==
    IF IsHeader THEN \E t \in Titles : comments = <<Bar, Text(t), Bar>> /\ Begins(o, w, t, o1, w1)
    ELSE o1 = o /\ w1 = w

\* What is ahead makes o1 and w1 the writer's.
Leads(o1, w1) ==
    \/ (Idle \/ SettingAhead) /\ o1 = open /\ w1 = within
    \/ \E t \in Titles : HeaderAhead(t) /\ Begins(o1, w1, t, open, within)
    \/ \E t \in Titles : EndAhead(t) /\ o1 # <<>> /\ t = Last(o1) /\ open = Front(o1) /\ within = w1

\* What has been read and what is ahead make o and w the writer's.
Behind(o, w) ==
    \/ \E o1, w1 : Pending(o, w, o1, w1) /\ Leads(o1, w1)
    \/ (BlankAhead \/ AtStart) /\ o = open /\ w = within
    \/ \E t \in Titles : InHeader(t) /\ Begins(o, w, t, open, within)

\* The list stands for what the writer had written when it wrote what is in it.
NestingInv == \E o, w : Behind(o, w) /\ (~repeated => StandsFor(groups, o, w))

\* The group of a header that has been read begins as the writer meant it.
LEMMA PendingIs ==
    ASSUME groups \in Lists, NEW o, NEW w, NEW o1, NEW w1, Pending(o, w, o1, w1),
           ~repeated => StandsFor(groups, o, w)
    PROVE  HeaderRead /\ Begun \in Lists /\ (~Again => StandsFor(Begun, o1, w1))
  <1>1. HeaderRead
      BY DEF Pending, HeaderRead
  <1>2. Begun \in Lists
      BY <1>1, BegunIs
  <1>3. ASSUME ~Again PROVE StandsFor(Begun, o1, w1)
    <2>1. ~repeated /\ StandsFor(groups, o, w)
        BY <1>3 DEF Again
    <2>2. CASE ~IsHeader
        BY <2>1, <2>2 DEF Pending, Begun
    <2>3. CASE IsHeader
      <3>1. PICK t \in Titles : comments = <<Bar, Text(t), Bar>> /\ Begins(o, w, t, o1, w1)
          BY <2>3 DEF Pending
      <3>2. comments[2].title = t
        <4>1. comments[2] = Text(t)
            BY <3>1
        <4> QED BY <4>1 DEF Text
      <3>3. Begun = Grown(groups, t)
          BY <2>3, <3>2 DEF Begun, Grown
      <3>4. Matching(groups, t) = {}
          BY <1>3, <2>3, <3>2 DEF Again
      <3> QED BY <2>1, <3>1, <3>3, <3>4, StandsGrown
    <2> QED BY <2>2, <2>3
  <1> QED BY <1>1, <1>2, <1>3

\* It holds in front of the file's first line.
LEMMA NestingStart == ConfigInit => NestingInv
  <1> SUFFICES ASSUME ConfigInit PROVE NestingInv
      OBVIOUS
  <1> DEFINE root == [name |-> Root, entries |-> <<>>]
             d == [i \in 1..1 |-> 0]
  <1>1. /\ open = <<>> /\ within = {} /\ comments = <<>> /\ groups = <<root>> /\ repeated = FALSE
        /\ \/ ahead = <<Bar, Text(Root), Text(Root), Bar>> /\ settings = 0
           \/ ahead = <<Setting(1)>> /\ settings = 1
      BY DEF ConfigInit
  <1>2. Behind(<<>>, {})
    <2>1. CASE ahead = <<Bar, Text(Root), Text(Root), Bar>>
      <3>1. AtStart
          BY <1>1, <2>1 DEF AtStart
      <3> QED BY <1>1, <3>1 DEF Behind
    <2>2. CASE ahead = <<Setting(1)>> /\ settings = 1
      <3>1. SettingAhead /\ ~IsHeader
          BY <1>1, <2>2 DEF SettingAhead, IsHeader
      <3>2. Pending(<<>>, {}, <<>>, {}) /\ Leads(<<>>, {})
          BY <1>1, <3>1 DEF Pending, Leads
      <3> QED BY <3>2 DEF Behind
    <2> QED BY <1>1, <2>1, <2>2
  <1>3. Nested(root.entries) = {}
      BY DEF Nested, Range
  <1> HIDE DEF root
  <1>4. Len(groups) = 1 /\ groups[1] = root /\ DOMAIN groups = {1} /\ Len(<<>>) = 0
      BY <1>1
  <1>5. d \in [1..Len(groups) -> 0..Len(<<>>)] /\ d[1] = 0
      BY <1>4
  <1> HIDE DEF d
  <1>6. Found(groups, <<>>, d) = {}
    <2>1. 1..Len(groups) = {1}
        BY <1>4
    <2>2. Share(<<>>, d[1], groups[1]) = {}
        BY <1>3, <1>4, <1>5 DEF Share
    <2> QED BY <2>1, <2>2 DEF Found
  <1>7. <<>> \in [1..Len(<<>>) -> 1..Len(groups)] /\ 1..Len(<<>>) = {} /\ <<>> \in Seq(Titles)
      BY <1>4
  <1>8. Placed(groups, <<>>, {}, <<>>, d)
      BY <1>6, <1>7 DEF Placed
  <1>9. StandsFor(groups, <<>>, {})
      BY <1>4, <1>5, <1>7, <1>8 DEF StandsFor, Distinct
  <1> QED BY <1>2, <1>9 DEF NestingInv

\* What is written is between the list and the writer.
LEMMA WritesKeepNesting ==
    ASSUME NestingInv,
           \/ \E t \in Titles : \E isMenu \in BOOLEAN : WriteHeader(t, isMenu)
           \/ WriteSetting \/ WriteEnd,
           ConfigTypes
    PROVE  NestingInv'
  <1>1. Idle /\ UNCHANGED <<comments, groups, repeated>>
      BY DEF WriteHeader, WriteSetting, WriteEnd, Write, Idle
  <1>2. PICK o, w : Behind(o, w) /\ (~repeated => StandsFor(groups, o, w))
      BY DEF NestingInv
  <1>3. Pending(o, w, open, within)
    <2>1. ~BlankAhead /\ ~AtStart /\ ~SettingAhead /\ \A t : ~InHeader(t) /\ ~HeaderAhead(t) /\ ~EndAhead(t)
        BY <1>1, Heads DEF Idle, BlankAhead, AtStart, SettingAhead, InHeader, HeaderAhead, EndAhead
    <2>2. PICK o1, w1 : Pending(o, w, o1, w1) /\ Leads(o1, w1)
        BY <1>2, <2>1 DEF Behind
    <2>3. o1 = open /\ w1 = within
        BY <2>1, <2>2 DEF Leads
    <2> QED BY <2>2, <2>3
  <1>4. PICK q, v : q = open /\ v = within
      OBVIOUS
  <1>5. Pending(o, w, q, v)'
      BY <1>1, <1>3, <1>4 DEF Pending, IsHeader
  <1>6. Leads(q, v)'
    <2>1. ASSUME NEW t \in Titles, NEW isMenu \in BOOLEAN, WriteHeader(t, isMenu) PROVE Leads(q, v)'
      <3>1. HeaderAhead(t)'
          BY <2>1 DEF WriteHeader, Write, HeaderAhead
      <3>2. Begins(q, v, t, open', within')
          BY <1>4, <2>1 DEF WriteHeader, Begins
      <3> QED BY <3>1, <3>2 DEF Leads
    <2>2. ASSUME WriteSetting PROVE Leads(q, v)'
      <3>1. SettingAhead'
          BY <2>2 DEF WriteSetting, Write, SettingAhead, ConfigTypes
      <3>2. open' = q /\ within' = v
          BY <1>4, <2>2 DEF WriteSetting
      <3> QED BY <3>1, <3>2 DEF Leads
    <2>3. ASSUME WriteEnd PROVE Leads(q, v)'
      <3>1. open # <<>> /\ open' = Front(open) /\ within' = within
          BY <2>3 DEF WriteEnd
      <3>2. Last(open) \in Titles
          BY <3>1, FrontIs DEF ConfigTypes
      <3>3. PICK t \in Titles : t = Last(open)
          BY <3>2
      <3>4. EndAhead(t)'
          BY <2>3, <3>3 DEF WriteEnd, Write, EndAhead
      <3> QED BY <1>4, <3>1, <3>3, <3>4 DEF Leads
    <2> QED BY <2>1, <2>2, <2>3
  <1>7. Behind(o, w)'
      BY <1>5, <1>6 DEF Behind
  <1>8. (~repeated => StandsFor(groups, o, w))'
      BY <1>1, <1>2
  <1> QED BY <1>7, <1>8 DEF NestingInv

\* Each line that is read brings the list closer to what has been written.
LEMMA ReadsKeepNesting ==
    ASSUME NestingInv, ReadComment \/ ReadLine, ConfigTypes
    PROVE  NestingInv'
  <1>1. PICK o, w : Behind(o, w) /\ (~repeated => StandsFor(groups, o, w))
      BY DEF NestingInv
  <1>2. groups \in Lists /\ settings \in Nat /\ repeated \in BOOLEAN
      BY DEF ConfigTypes
  <1>3. ~Idle /\ UNCHANGED <<open, within, settings>>
      BY <1>2, ReadsAre
  <1>4. PICK q, v : q = open /\ v = within
      OBVIOUS
  <1>5. comments' = <<>> \/ comments' = <<Bar, Text(Root), Text(Root), Bar>> => ~IsHeader'
      BY DEF IsHeader
  <1>6. ASSUME NEW o1, NEW w1, Pending(o, w, o1, w1), Leads(o1, w1) PROVE NestingInv'
    <2>1. HeaderRead /\ Begun \in Lists /\ (~Again => StandsFor(Begun, o1, w1))
        BY <1>1, <1>2, <1>6, PendingIs
    <2>2. CASE SettingAhead /\ o1 = open /\ w1 = within
      <3>1. /\ Idle' /\ comments' = <<>>
            /\ groups' = WithSetting(Begun, Setting(settings)) /\ repeated' = Again
          BY <1>2, <2>1, <2>2, ReadsAre DEF ReadSetting
      <3>2. Pending(q, v, q, v)' /\ Leads(q, v)'
          BY <1>3, <1>4, <1>5, <3>1 DEF Pending, Leads
      <3>3. ~Again => StandsFor(WithSetting(Begun, Setting(settings)), q, v)
          BY <1>2, <1>4, <2>1, <2>2, StandsSetting
      <3>4. (~repeated => StandsFor(groups, q, v))'
          BY <3>1, <3>3
      <3> QED BY <3>2, <3>4 DEF NestingInv, Behind
    <2>3. ASSUME NEW t \in Titles, HeaderAhead(t), Begins(o1, w1, t, open, within) PROVE NestingInv'
      <3>1. InHeader(t)' /\ groups' = Begun /\ repeated' = Again
          BY <1>2, <2>1, <2>3, ReadsAre DEF ReadBlank
      <3>2. Begins(o1, w1, t, open, within)'
          BY <1>3, <2>3
      <3>3. Behind(o1, w1)'
          BY <3>1, <3>2 DEF Behind
      <3>4. (~repeated => StandsFor(groups, o1, w1))'
          BY <2>1, <3>1
      <3> QED BY <3>3, <3>4 DEF NestingInv
    <2>4. ASSUME NEW t \in Titles, EndAhead(t), o1 # <<>>, t = Last(o1), open = Front(o1), within = w1
          PROVE  NestingInv'
      <3>1. BlankAhead' /\ groups' = Ended(Begun, t) /\ repeated' = Again
          BY <1>2, <2>1, <2>4, ReadsAre DEF ReadEnd
      <3>2. Behind(q, v)'
          BY <1>3, <1>4, <3>1 DEF Behind
      <3>3. ~Again => StandsFor(Ended(Begun, t), q, v)
          BY <1>4, <2>1, <2>4, StandsEnded
      <3>4. (~repeated => StandsFor(groups, q, v))'
          BY <3>1, <3>3
      <3> QED BY <3>2, <3>4 DEF NestingInv
    <2> QED BY <1>3, <1>6, <2>2, <2>3, <2>4 DEF Leads
  <1>7. ASSUME BlankAhead \/ AtStart, o = open, w = within PROVE NestingInv'
    <2>1. /\ UNCHANGED <<groups, repeated>>
          /\ \/ AtStart'
             \/ Idle' /\ ~IsHeader'
        BY <1>2, <1>5, <1>7, ReadsAre DEF ReadLast, ReadStart
    <2>2. (~repeated => StandsFor(groups, o, w))'
        BY <1>1, <2>1
    <2>3. open' = o /\ within' = w
        BY <1>3, <1>7
    <2>4. Behind(o, w)'
      <3>1. CASE AtStart'
          BY <2>3, <3>1 DEF Behind
      <3>2. CASE Idle' /\ ~IsHeader'
        <4>1. Pending(o, w, o, w)' /\ Leads(o, w)'
            BY <2>3, <3>2 DEF Pending, Leads
        <4> QED BY <4>1 DEF Behind
      <3> QED BY <2>1, <3>1, <3>2
    <2> QED BY <2>2, <2>4 DEF NestingInv
  <1>8. ASSUME NEW t \in Titles, InHeader(t), Begins(o, w, t, open, within) PROVE NestingInv'
    <2>1. /\ UNCHANGED <<groups, repeated>>
          /\ \/ InHeader(t)'
             \/ Idle' /\ comments' = <<Bar, Text(t), Bar>>
        BY <1>2, <1>8, ReadsAre DEF ReadHeader
    <2>2. (~repeated => StandsFor(groups, o, w))'
        BY <1>1, <2>1
    <2>3. Begins(o, w, t, open, within)' /\ Begins(o, w, t, q, v)
        BY <1>3, <1>4, <1>8
    <2>4. Behind(o, w)'
      <3>1. CASE InHeader(t)'
          BY <2>3, <3>1 DEF Behind
      <3>2. CASE Idle' /\ comments' = <<Bar, Text(t), Bar>>
        <4>1. IsHeader'
            BY <3>2 DEF IsHeader
        <4>2. Pending(o, w, q, v)'
            BY <2>3, <3>2, <4>1 DEF Pending
        <4>3. Leads(q, v)'
            BY <1>3, <1>4, <3>2 DEF Leads
        <4> QED BY <4>2, <4>3 DEF Behind
      <3> QED BY <2>1, <3>1, <3>2
    <2> QED BY <2>2, <2>4 DEF NestingInv
  <1> QED BY <1>1, <1>6, <1>7, <1>8 DEF Behind

\* NestingInv is inductive.
LEMMA NestingInvIs == ConfigSpec => []NestingInv
  <1>1. ConfigInit => NestingInv
      BY NestingStart
  <1>2. ASSUME NestingInv, ConfigTypes, [ConfigNext]_configVars PROVE NestingInv'
    <2>1. CASE UNCHANGED configVars
      <3>1. UNCHANGED <<ahead, settings, comments, open, within, groups, repeated>>
          BY <2>1 DEF configVars, configFile
      <3>2. PICK o, w : Behind(o, w) /\ (~repeated => StandsFor(groups, o, w))
          BY <1>2 DEF NestingInv
      <3>3. /\ IsHeader' = IsHeader /\ Idle' = Idle /\ SettingAhead' = SettingAhead
            /\ BlankAhead' = BlankAhead /\ AtStart' = AtStart
            /\ \A t : /\ HeaderAhead(t)' = HeaderAhead(t) /\ EndAhead(t)' = EndAhead(t)
                      /\ InHeader(t)' = InHeader(t)
          BY <3>1 DEF IsHeader, Idle, SettingAhead, BlankAhead, AtStart, HeaderAhead, EndAhead, InHeader
      <3>4. \A q, v : Leads(q, v)' = Leads(q, v)
          BY <3>1, <3>3 DEF Leads
      <3>5. \A q, v : Pending(o, w, q, v)' = Pending(o, w, q, v)
          BY <3>1, <3>3 DEF Pending
      <3>6. Behind(o, w)'
          BY <3>1, <3>2, <3>3, <3>4, <3>5 DEF Behind
      <3>7. (~repeated => StandsFor(groups, o, w))'
          BY <3>1, <3>2
      <3> QED BY <3>6, <3>7 DEF NestingInv
    <2>2. CASE ConfigNext
        BY <1>2, <2>1, <2>2, WritesKeepNesting, ReadsKeepNesting DEF ConfigNext, ConfigTerminated
    <2> QED BY <1>2, <2>1, <2>2
  <1>3. ConfigInv => ConfigTypes
      BY DEF ConfigInv
  <1> QED BY <1>1, <1>2, <1>3, ConfigInvIs, PTL DEF ConfigSpec

\* When all menus have ended the tree has the nesting of the file: each group is in
\* the groups of the menus around it, in their order, and in no other one, however
\* deep the menus are, although the reader never knows which menus are open
\* (collect_data of kernel_config.rs).
THEOREM MenusAreNested == ConfigSpec => []MenusNested
  <1>1. ConfigTypes /\ NestingInv => MenusNested
    <2> SUFFICES ASSUME ConfigTypes, NestingInv, open = <<>>, ahead = <<>>, ~repeated
                 PROVE  UNION {Nested(g.entries) : g \in Range(groups)} = within
        BY DEF MenusNested
    <2>1. PICK o, w : Behind(o, w) /\ StandsFor(groups, o, w)
        BY DEF NestingInv
    <2>2. ~BlankAhead /\ ~AtStart /\ ~SettingAhead /\ \A t : ~InHeader(t) /\ ~HeaderAhead(t) /\ ~EndAhead(t)
        BY Heads DEF BlankAhead, AtStart, SettingAhead, InHeader, HeaderAhead, EndAhead
    <2>3. Pending(o, w, <<>>, within)
        BY <2>1, <2>2 DEF Behind, Leads
    <2>4. o = <<>> /\ w = within
      <3>1. CASE ~IsHeader
          BY <2>3, <3>1 DEF Pending
      <3>2. CASE IsHeader
        <4>1. PICK t \in Titles : Begins(o, w, t, <<>>, within)
            BY <2>3, <3>2 DEF Pending
        <4>2. o \in Seq(Titles)
            BY <2>1 DEF StandsFor
        <4>3. Append(o, t) # <<>>
            BY <4>2, AppendProperties
        <4> QED BY <4>1, <4>3 DEF Begins
      <3> QED BY <3>1, <3>2
    <2> QED BY <2>1, <2>4, NoneOpen DEF ConfigTypes
  <1>2. ConfigInv => ConfigTypes
      BY DEF ConfigInv
  <1> QED BY <1>1, <1>2, ConfigInvIs, NestingInvIs, PTL
=============================================================================
