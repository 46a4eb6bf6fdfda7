------------------------------ MODULE Recording ------------------------------
(***************************************************************************)
(* What aperf record promises about the archive it leaves: it is begun at  *)
(* most once, after the last round of samples, and holds for every         *)
(* collector one sample per round (one in all for static data, perhaps     *)
(* none for what could not be sampled).  Static data and what the user     *)
(* asked to profile is never missing from the archive of a recording that  *)
(* ends normally.  One that fails before the archive is begun leaves none; *)
(* one that fails while it is being made leaves part of it, in which every *)
(* file is whole, but for one that may be cut short.  Whether the archive  *)
(* is sealed, so that it can be read to its end, is not promised.  Rounds  *)
(* are atomic here; Recorder, the model of the code, visits the collectors *)
(* one by one, in any order, and any visit may fail.                       *)
(***************************************************************************)
EXTENDS Integers

CONSTANTS Collectors,  \* everything that can be recorded
          Static,      \* the collectors of data that does not change
          MaxRounds,   \* bound on the rounds of a recording
          NoArchive    \* the value of archive while there is none

VARIABLES requested,   \* what the user asked for explicitly
          status,      \* "preparing", "sampling", "closing", "archiving", then
                       \* "archived", or "failed" at any time
          rounds,      \* rounds of samples taken
          archive,     \* samples in the file of each collector in the archive
          sealed       \* the archive ends as one does

vars == <<requested, status, rounds, archive, sealed>>

Init == /\ requested \in SUBSET Collectors
        /\ status = "preparing"
        /\ rounds = 0
        /\ archive = NoArchive
        /\ sealed = FALSE

Start == /\ status = "preparing"
         /\ status' = "sampling"
         /\ UNCHANGED <<requested, rounds, archive, sealed>>

Round == /\ status = "sampling"
         /\ rounds < MaxRounds
         /\ rounds' = rounds + 1
         /\ UNCHANGED <<requested, status, archive, sealed>>

Close == /\ status = "sampling"
         /\ status' = "closing"
         /\ UNCHANGED <<requested, rounds, archive, sealed>>

\* The archive is begun.
Open == /\ status = "closing"
        /\ status' = "archiving"
        /\ archive' = [c \in {} |-> 0]
        /\ UNCHANGED <<requested, rounds, sealed>>

\* How many samples the whole file of c may hold.
Content(c) == IF c \in Static THEN {1}
              ELSE IF c \in requested THEN {rounds} ELSE {0, rounds}

\* The archive with n samples of c.
With(c, n) == [d \in DOMAIN archive \cup {c} |-> IF d = c THEN n ELSE archive[d]]

\* A whole file is put into the archive.
Add(c) == /\ status = "archiving"
          /\ c \in Collectors \ DOMAIN archive
          /\ \E n \in Content(c) : archive' = With(c, n)
          /\ UNCHANGED <<requested, status, rounds, sealed>>

\* All files are in it.
Seal == /\ status = "archiving"
        /\ DOMAIN archive = Collectors
        /\ status' = "archived"
        /\ sealed' \in BOOLEAN
        /\ UNCHANGED <<requested, rounds, archive>>

\* The recording fails while no archive is being made.
Lose == /\ status \in {"preparing", "sampling", "closing", "archived"}
        /\ status' = "failed"
        /\ UNCHANGED <<requested, rounds, archive, sealed>>

\* It fails while one is being made, perhaps in the middle of a file.
Break == /\ status = "archiving"
         /\ status' = "failed"
         /\ \/ archive' = archive
            \/ \E c \in Collectors \ DOMAIN archive : \E m \in Content(c) :
                  \E n \in 0..m : archive' = With(c, n)
         /\ sealed' \in BOOLEAN
         /\ UNCHANGED <<requested, rounds>>

Next == \/ Start \/ Round \/ Close \/ Open
        \/ \E c \in Collectors : Add(c)
        \/ Seal \/ Lose \/ Break

Spec == Init /\ [][Next]_vars
=============================================================================
