--------------------------- MODULE RecorderProofs ---------------------------
(***************************************************************************)
(* Proofs about Recorder for every set of collectors, every choice of      *)
(* profilers and every bound on the rounds.                                *)
(***************************************************************************)
EXTENDS Recorder, TLAPS

(***************************************************************************)
(* The inductive invariant.  SamplesUniform is about the moments between   *)
(* rounds only; RecordInv says what each pass has done to the files so     *)
(* far.  QuietDirectory is about the time after the pass that finishes the *)
(* collectors; ChildInv says what that pass has achieved when it has       *)
(* visited some of them.  ArchiveInv does so for the pass that puts the    *)
(* files into the archive.                                                 *)
(***************************************************************************)

Early == {"start", "init", "prepare"}
Late == {"static", "poll", "round", "finish", "after", "end", "archive", "archived",
         "complete"}

\* Samples of a collector that takes part in n rounds.
Samples(c, n) == IF c \in Static THEN 1 ELSE n

\* Which collectors are left, and who is not among them.
TeamInv == /\ dropped \cap (Static \cup requested) = {}
           /\ phase = "prepare" => Profilers \ requested \subseteq dropped \cup todo
           /\ phase \in Late => Profilers \ requested \subseteq dropped
           /\ phase \in Early => collectors = Collectors
           /\ phase \in Late => collectors = Collectors \ dropped
           /\ phase \in Late \ {"archive", "archived", "complete"} =>
                 todo \subseteq collectors

\* What the passes have written into the files.
RecordInv ==
    /\ phase \in Early => \A c \in Collectors : records[c] = 0
    /\ phase \in Early \cup {"static"} => rounds = 0
    /\ phase = "static" =>
          \A c \in Collectors : records[c] = IF c \in Static \ todo THEN 1 ELSE 0
    /\ phase = "round" =>
          /\ rounds < MaxRounds
          /\ \A c \in collectors :
                records[c] = Samples(c, IF c \in todo THEN rounds ELSE rounds + 1)
    /\ SamplesUniform
    /\ DroppedStaysEmpty

\* Only requested launchers have children, and those the finishing pass has
\* visited have been waited for, but for the one it is waiting for now.
ChildInv ==
    /\ \A c \in Launchers \ requested : child[c] = "none"
    /\ phase = "finish" =>
          \A c \in Launchers : c \in todo \/ c = waiting
                                 \/ child[c] \in {"none", "reaped"}
    /\ phase \in Late \cup Early /\ phase # "finish" => waiting = Nobody
    /\ QuietDirectory

\* There is no archive before end() makes one.  While it does, the files that it
\* has passed are in the archive whole; when it is over, all are.
ArchiveInv ==
    /\ phase \in (Early \cup Late) \ {"archive", "archived", "complete"} =>
          archive = NoArchive
    /\ phase = "archive" =>
          /\ archive \in [Collectors \ todo -> Nat]
          /\ \A c \in Collectors \ todo : archive[c] = records[c]
    /\ phase \in {"archived", "complete"} => archive \in [Collectors -> Nat]

Inv == TypeOK /\ TeamInv /\ RecordInv /\ ChildInv /\ ArchiveInv

-----------------------------------------------------------------------------
\* Every step keeps the invariant: one lemma per action.

LEMMA InitInv == Init => Inv
  <1> SUFFICES ASSUME Init
               PROVE  Inv
    OBVIOUS
  <1> USE Kinds, Numbers DEF Init
  <1>1. TypeOK
    <2>1. archive \in Archives
      BY DEF Archives
    <2>2. /\ records \in [Collectors -> Nat]
          /\ child \in [Launchers -> {"none", "running", "exited", "reaped"}]
      OBVIOUS
    <2>3. requested \in Options /\ frequency \in Frequencies /\ rounds \in 0..MaxRounds
      OBVIOUS
    <2>4. perf_frequency \in Nat
      OBVIOUS
    <2> QED
      BY <2>1, <2>2, <2>3, <2>4 DEF TypeOK, Ended
  <1>2. TeamInv
    BY DEF TeamInv, Early, Late
  <1>3. RecordInv
    BY DEF RecordInv, Early, Samples, SamplesUniform, BetweenRounds, DroppedStaysEmpty
  <1>4. ChildInv
    BY DEF ChildInv, QuietDirectory
  <1>5. ArchiveInv
    BY DEF ArchiveInv
  <1> QED
    BY <1>1, <1>2, <1>3, <1>4, <1>5 DEF Inv

LEMMA CreateDirKeeps == ASSUME Inv, CreateDir
                        PROVE  Inv'
  <1> USE Kinds, Numbers DEF Inv, CreateDir, Begin, arguments, output
  <1>1. TypeOK'
    BY DEF TypeOK, Collectors, Ended
  <1>2. TeamInv'
    BY DEF TypeOK, TeamInv, Collectors, Early, Late
  <1>3. RecordInv'
    BY DEF TypeOK, TeamInv, RecordInv, Early, Late, Samples, SamplesUniform,
           BetweenRounds, DroppedStaysEmpty, Collectors
  <1>4. ChildInv'
    BY DEF TypeOK, TeamInv, ChildInv, Early, Late, QuietDirectory, Collectors
  <1>5. ArchiveInv'
    BY DEF TypeOK, ArchiveInv, Early, Late
  <1> QED
    BY <1>1, <1>2, <1>3, <1>4, <1>5

LEMMA InitOverKeeps == ASSUME Inv, InitOver
                       PROVE  Inv'
  <1> USE Kinds, Numbers DEF Inv, InitOver, Begin, Over, arguments, output
  <1>1. TypeOK'
    BY DEF TypeOK, Collectors, Ended
  <1>2. TeamInv'
    BY DEF TypeOK, TeamInv, Collectors, Early, Late
  <1>3. RecordInv'
    BY DEF TypeOK, TeamInv, RecordInv, Early, Late, Samples, SamplesUniform,
           BetweenRounds, DroppedStaysEmpty, Collectors
  <1>4. ChildInv'
    BY DEF TypeOK, TeamInv, ChildInv, Early, Late, QuietDirectory, Collectors
  <1>5. ArchiveInv'
    BY DEF TypeOK, ArchiveInv, Early, Late
  <1> QED
    BY <1>1, <1>2, <1>3, <1>4, <1>5

LEMMA PrepareOverKeeps == ASSUME Inv, PrepareOver
                          PROVE  Inv'
  <1> USE Kinds, Numbers DEF Inv, PrepareOver, Begin, Over, Remaining, arguments, output
  <1>1. TypeOK'
    BY DEF TypeOK, Collectors, Ended
  <1>2. TeamInv'
    BY DEF TypeOK, TeamInv, Collectors, Early, Late
  <1>3. RecordInv'
    BY DEF TypeOK, TeamInv, RecordInv, Early, Late, Samples, SamplesUniform,
           BetweenRounds, DroppedStaysEmpty, Collectors
  <1>4. ChildInv'
    BY DEF TypeOK, TeamInv, ChildInv, Early, Late, QuietDirectory, Collectors
  <1>5. ArchiveInv'
    BY DEF TypeOK, ArchiveInv, Early, Late
  <1> QED
    BY <1>1, <1>2, <1>3, <1>4, <1>5

LEMMA StaticOverKeeps == ASSUME Inv, StaticOver
                         PROVE  Inv'
  <1> USE Kinds, Numbers DEF Inv, StaticOver, Over, arguments, output
  <1>1. TypeOK'
    BY DEF TypeOK, Collectors, Ended
  <1>2. TeamInv'
    BY DEF TypeOK, TeamInv, Collectors, Early, Late
  <1>3. RecordInv'
    BY DEF TypeOK, TeamInv, RecordInv, Early, Late, Samples, SamplesUniform,
           BetweenRounds, DroppedStaysEmpty, Collectors
  <1>4. ChildInv'
    BY DEF TypeOK, TeamInv, ChildInv, Early, Late, QuietDirectory, Collectors
  <1>5. ArchiveInv'
    BY DEF TypeOK, ArchiveInv, Early, Late
  <1> QED
    BY <1>1, <1>2, <1>3, <1>4, <1>5

LEMMA RoundStartKeeps == ASSUME Inv, RoundStart
                         PROVE  Inv'
  <1> USE Kinds, Numbers DEF Inv, RoundStart, Begin, arguments, output
  <1>1. TypeOK'
    BY DEF TypeOK, Collectors, Ended
  <1>2. TeamInv'
    BY DEF TypeOK, TeamInv, Collectors, Early, Late
  <1>3. RecordInv'
    BY DEF TypeOK, TeamInv, RecordInv, Early, Late, Samples, SamplesUniform,
           BetweenRounds, DroppedStaysEmpty, Collectors
  <1>4. ChildInv'
    BY DEF TypeOK, TeamInv, ChildInv, Early, Late, QuietDirectory, Collectors
  <1>5. ArchiveInv'
    BY DEF TypeOK, ArchiveInv, Early, Late
  <1> QED
    BY <1>1, <1>2, <1>3, <1>4, <1>5

LEMMA RoundOverKeeps == ASSUME Inv, RoundOver
                        PROVE  Inv'
  <1> USE Kinds, Numbers DEF Inv, RoundOver, RoundDone, Over, arguments, output
  <1>1. TypeOK'
    BY DEF RecordInv, TypeOK, Collectors, Ended
  <1>2. TeamInv'
    BY DEF TypeOK, TeamInv, Collectors, Early, Late
  <1>3. RecordInv'
    BY DEF TypeOK, TeamInv, RecordInv, Early, Late, Samples, SamplesUniform,
           BetweenRounds, DroppedStaysEmpty, Collectors
  <1>4. ChildInv'
    BY DEF TypeOK, TeamInv, ChildInv, Early, Late, QuietDirectory, Collectors
  <1>5. ArchiveInv'
    BY DEF TypeOK, ArchiveInv, Early, Late
  <1> QED
    BY <1>1, <1>2, <1>3, <1>4, <1>5

LEMMA LoopEndsKeeps == ASSUME Inv, LoopEnds
                       PROVE  Inv'
  <1> USE Kinds, Numbers DEF Inv, LoopEnds, Begin, arguments, output
  <1>1. TypeOK'
    BY DEF TypeOK, Collectors, Ended
  <1>2. TeamInv'
    BY DEF TypeOK, TeamInv, Collectors, Early, Late
  <1>3. RecordInv'
    BY DEF TypeOK, TeamInv, RecordInv, Early, Late, Samples, SamplesUniform,
           BetweenRounds, DroppedStaysEmpty, Collectors
  <1>4. ChildInv'
    BY DEF TypeOK, TeamInv, ChildInv, Early, Late, QuietDirectory, Collectors
  <1>5. ArchiveInv'
    BY DEF TypeOK, ArchiveInv, Early, Late
  <1> QED
    BY <1>1, <1>2, <1>3, <1>4, <1>5

LEMMA ReapKeeps == ASSUME Inv, Reap
                   PROVE  Inv'
  <1> USE Kinds, Numbers DEF Inv, Reap, Reapable, arguments, output
  <1>1. TypeOK'
    BY DEF TypeOK, Collectors, Ended
  <1>2. TeamInv'
    BY DEF TypeOK, TeamInv, Collectors, Early, Late
  <1>3. RecordInv'
    BY DEF TypeOK, TeamInv, RecordInv, Early, Late, Samples, SamplesUniform,
           BetweenRounds, DroppedStaysEmpty, Collectors
  <1>4. ChildInv'
    BY DEF TypeOK, TeamInv, ChildInv, Early, Late, QuietDirectory, Collectors
  <1>5. ArchiveInv'
    BY DEF TypeOK, ArchiveInv, Early, Late
  <1> QED
    BY <1>1, <1>2, <1>3, <1>4, <1>5

LEMMA FinishOverKeeps == ASSUME Inv, FinishOver
                         PROVE  Inv'
  <1> USE Kinds, Numbers DEF Inv, FinishOver, Over, Begin, arguments, output
  <1>1. TypeOK'
    BY DEF TypeOK, Collectors, Ended
  <1>2. TeamInv'
    BY DEF TypeOK, TeamInv, Collectors, Early, Late
  <1>3. RecordInv'
    BY DEF TypeOK, TeamInv, RecordInv, Early, Late, Samples, SamplesUniform,
           BetweenRounds, DroppedStaysEmpty, Collectors
  <1>4. ChildInv'
    BY DEF TypeOK, TeamInv, ChildInv, Early, Late, QuietDirectory, Collectors
  <1>5. ArchiveInv'
    BY DEF TypeOK, ArchiveInv, Early, Late
  <1> QED
    BY <1>1, <1>2, <1>3, <1>4, <1>5

LEMMA AfterOverKeeps == ASSUME Inv, AfterOver
                        PROVE  Inv'
  <1> USE Kinds, Numbers DEF Inv, AfterOver, Over, arguments, output
  <1>1. TypeOK'
    BY DEF TypeOK, Collectors, Ended
  <1>2. TeamInv'
    BY DEF TypeOK, TeamInv, Collectors, Early, Late
  <1>3. RecordInv'
    BY DEF TypeOK, TeamInv, RecordInv, Early, Late, Samples, SamplesUniform,
           BetweenRounds, DroppedStaysEmpty, Collectors
  <1>4. ChildInv'
    BY DEF TypeOK, TeamInv, ChildInv, Early, Late, QuietDirectory, Collectors
  <1>5. ArchiveInv'
    BY DEF TypeOK, ArchiveInv, Early, Late
  <1> QED
    BY <1>1, <1>2, <1>3, <1>4, <1>5

\* The archive with one file more.
LEMMA WithOne ==
    ASSUME NEW S, archive \in [S -> Nat], NEW c, NEW n \in Nat
    PROVE  /\ With(c, n) \in [S \cup {c} -> Nat]
           /\ With(c, n)[c] = n
           /\ \A d \in S \ {c} : With(c, n)[d] = archive[d]
  BY DEF With

LEMMA PartIsArchive ==
    ASSUME NEW S \in SUBSET Collectors, NEW a \in [S -> Nat]
    PROVE  a \in Archives
  BY DEF Archives

LEMMA CreateArchiveKeeps == ASSUME Inv, CreateArchive
                            PROVE  Inv'
  <1> USE Kinds, Numbers DEF Inv, CreateArchive, Begin, arguments, output
  <1>1. TypeOK'
    <2>1. archive' \in [{} -> Nat]
      OBVIOUS
    <2>2. archive' \in Archives
      BY <2>1, PartIsArchive
    <2> QED
      BY <2>2 DEF TypeOK, Ended
  <1>2. TeamInv'
    BY DEF TypeOK, TeamInv, Collectors, Early, Late
  <1>3. RecordInv'
    BY DEF TypeOK, TeamInv, RecordInv, Early, Late, Samples, SamplesUniform,
           BetweenRounds, DroppedStaysEmpty, Collectors
  <1>4. ChildInv'
    BY DEF TypeOK, TeamInv, ChildInv, Early, Late, QuietDirectory, Collectors
  <1>5. ArchiveInv'
    <2>1. archive' \in [Collectors \ todo' -> Nat] /\ Collectors \ todo' = {}
      OBVIOUS
    <2> QED
      BY <2>1 DEF ArchiveInv, Early, Late
  <1> QED
    BY <1>1, <1>2, <1>3, <1>4, <1>5

LEMMA AddFileKeeps == ASSUME NEW c \in Collectors, Inv, AddFile(c)
                      PROVE  Inv'
  <1> USE Kinds, Numbers DEF Inv, AddFile, Visit, arguments, output
  <1>1. TypeOK'
    <2>1. /\ archive' \in [(Collectors \ todo) \cup {c} -> Nat]
          /\ (Collectors \ todo) \cup {c} \subseteq Collectors
      BY WithOne DEF TypeOK, ArchiveInv
    <2>2. archive' \in Archives
      BY <2>1, PartIsArchive
    <2> QED
      BY <2>2 DEF TypeOK, Ended
  <1>2. TeamInv'
    BY DEF TypeOK, TeamInv, Collectors, Early, Late
  <1>3. RecordInv'
    BY DEF TypeOK, TeamInv, RecordInv, Early, Late, Samples, SamplesUniform,
           BetweenRounds, DroppedStaysEmpty, Collectors
  <1>4. ChildInv'
    BY DEF TypeOK, TeamInv, ChildInv, Early, Late, QuietDirectory, Collectors
  <1>5. ArchiveInv'
    <2>1. /\ Collectors \ todo' = (Collectors \ todo) \cup {c}
          /\ c \notin Collectors \ todo
          /\ records[c] \in Nat
      BY DEF TypeOK
    <2>2. /\ archive' \in [Collectors \ todo' -> Nat]
          /\ archive'[c] = records[c]
          /\ \A d \in (Collectors \ todo) \ {c} : archive'[d] = archive[d]
      <3>1. archive \in [Collectors \ todo -> Nat] /\ archive' = With(c, records[c])
        BY DEF ArchiveInv
      <3>2. /\ With(c, records[c]) \in [(Collectors \ todo) \cup {c} -> Nat]
            /\ With(c, records[c])[c] = records[c]
            /\ \A d \in (Collectors \ todo) \ {c} : With(c, records[c])[d] = archive[d]
        BY <2>1, <3>1 DEF With
      <3> QED
        BY <2>1, <3>1, <3>2
    <2> QED
      BY <2>1, <2>2 DEF ArchiveInv, Early, Late
  <1> QED
    BY <1>1, <1>2, <1>3, <1>4, <1>5

LEMMA SealArchiveKeeps == ASSUME Inv, SealArchive
                          PROVE  Inv'
  <1> USE Kinds, Numbers DEF Inv, SealArchive, Over, arguments, output
  <1>1. TypeOK'
    BY DEF TypeOK, Ended
  <1>2. TeamInv'
    BY DEF TypeOK, TeamInv, Collectors, Early, Late
  <1>3. RecordInv'
    BY DEF TypeOK, TeamInv, RecordInv, Early, Late, Samples, SamplesUniform,
           BetweenRounds, DroppedStaysEmpty, Collectors
  <1>4. ChildInv'
    BY DEF TypeOK, TeamInv, ChildInv, Early, Late, QuietDirectory, Collectors
  <1>5. ArchiveInv'
    BY DEF ArchiveInv, Early, Late
  <1> QED
    BY <1>1, <1>2, <1>3, <1>4, <1>5

LEMMA CleanUpKeeps == ASSUME Inv, CleanUp
                      PROVE  Inv'
  <1> USE Kinds, Numbers DEF Inv, CleanUp, arguments, output
  <1>1. TypeOK'
    BY DEF TypeOK, Collectors, Ended
  <1>2. TeamInv'
    BY DEF TypeOK, TeamInv, Collectors, Early, Late
  <1>3. RecordInv'
    BY DEF TypeOK, TeamInv, RecordInv, Early, Late, Samples, SamplesUniform,
           BetweenRounds, DroppedStaysEmpty, Collectors
  <1>4. ChildInv'
    BY DEF TypeOK, TeamInv, ChildInv, Early, Late, QuietDirectory, Collectors
  <1>5. ArchiveInv'
    BY DEF TypeOK, ArchiveInv, Early, Late
  <1> QED
    BY <1>1, <1>2, <1>3, <1>4, <1>5

\* A failure leaves of the archive what had been put into it, with a file that
\* may be cut short.
LEMMA BrokenIsArchive == ASSUME Inv, phase = "archive", Broken
                         PROVE  archive' \in Archives
  <1> USE DEF Inv, TypeOK
  <1>1. CASE archive' = archive
    BY <1>1
  <1>2. ASSUME NEW c \in todo, NEW n \in 0..records[c], archive' = With(c, n)
        PROVE  archive' \in Archives
    <2>1. n \in Nat
      OBVIOUS
    <2>2. /\ archive' \in [(Collectors \ todo) \cup {c} -> Nat]
          /\ (Collectors \ todo) \cup {c} \subseteq Collectors
      BY <1>2, <2>1, WithOne DEF ArchiveInv
    <2> QED
      BY <2>2, PartIsArchive
  <1> QED
    BY <1>1, <1>2 DEF Broken

LEMMA FailKeeps == ASSUME Inv, Fail
                   PROVE  Inv'
  <1> USE Kinds, Numbers DEF Inv, Fail, Fallible, arguments, output
  <1>1. TypeOK'
    <2>1. archive' \in Archives /\ sealed' \in BOOLEAN
      BY BrokenIsArchive DEF TypeOK, Broken
    <2> QED
      BY <2>1 DEF TypeOK, Ended
  <1>2. TeamInv'
    BY DEF TypeOK, TeamInv, Collectors, Early, Late
  <1>3. RecordInv'
    BY DEF TypeOK, TeamInv, RecordInv, Early, Late, Samples, SamplesUniform,
           BetweenRounds, DroppedStaysEmpty, Collectors
  <1>4. ChildInv'
    BY DEF TypeOK, TeamInv, ChildInv, Early, Late, QuietDirectory, Collectors
  <1>5. ArchiveInv'
    BY DEF ArchiveInv, Early, Late
  <1> QED
    BY <1>1, <1>2, <1>3, <1>4, <1>5

LEMMA KillKeeps == ASSUME Inv, Kill
                   PROVE  Inv'
  <1> USE Kinds, Numbers DEF Inv, Kill, Ended, arguments, output
  <1>1. TypeOK'
    BY DEF TypeOK, Collectors, Ended
  <1>2. TeamInv'
    BY DEF TypeOK, TeamInv, Collectors, Early, Late
  <1>3. RecordInv'
    BY DEF TypeOK, TeamInv, RecordInv, Early, Late, Samples, SamplesUniform,
           BetweenRounds, DroppedStaysEmpty, Collectors
  <1>4. ChildInv'
    BY DEF TypeOK, TeamInv, ChildInv, Early, Late, QuietDirectory, Collectors
  <1>5. ArchiveInv'
    BY DEF TypeOK, ArchiveInv, Early, Late
  <1> QED
    BY <1>1, <1>2, <1>3, <1>4, <1>5

LEMMA InitOneKeeps == ASSUME NEW c \in Collectors, Inv, InitOne(c)
                      PROVE  Inv'
  <1> USE Kinds, Numbers DEF Inv, InitOne, Visit, arguments, output
  <1>1. TypeOK'
    BY DEF TypeOK, Collectors, Ended
  <1>2. TeamInv'
    BY DEF TypeOK, TeamInv, Collectors, Early, Late
  <1>3. RecordInv'
    BY DEF TypeOK, TeamInv, RecordInv, Early, Late, Samples, SamplesUniform,
           BetweenRounds, DroppedStaysEmpty, Collectors
  <1>4. ChildInv'
    BY DEF TypeOK, TeamInv, ChildInv, Early, Late, QuietDirectory, Collectors
  <1>5. ArchiveInv'
    BY DEF TypeOK, ArchiveInv, Early, Late
  <1> QED
    BY <1>1, <1>2, <1>3, <1>4, <1>5

LEMMA SkipStaticKeeps == ASSUME NEW c \in Collectors, Inv, SkipStatic(c)
                         PROVE  Inv'
  <1> USE Kinds, Numbers DEF Inv, SkipStatic, Visit, arguments, output
  <1>1. TypeOK'
    BY DEF TypeOK, Collectors, Ended
  <1>2. TeamInv'
    BY DEF TypeOK, TeamInv, Collectors, Early, Late
  <1>3. RecordInv'
    BY DEF TypeOK, TeamInv, RecordInv, Early, Late, Samples, SamplesUniform,
           BetweenRounds, DroppedStaysEmpty, Collectors
  <1>4. ChildInv'
    BY DEF TypeOK, TeamInv, ChildInv, Early, Late, QuietDirectory, Collectors
  <1>5. ArchiveInv'
    BY DEF TypeOK, ArchiveInv, Early, Late
  <1> QED
    BY <1>1, <1>2, <1>3, <1>4, <1>5

LEMMA DropUnrequestedKeeps == ASSUME NEW c \in Collectors, Inv, DropUnrequested(c)
                              PROVE  Inv'
  <1> USE Kinds, Numbers DEF Inv, DropUnrequested, Visit, arguments, output
  <1>1. TypeOK'
    BY DEF TypeOK, Collectors, Ended
  <1>2. TeamInv'
    BY DEF TypeOK, TeamInv, Collectors, Early, Late
  <1>3. RecordInv'
    BY DEF TypeOK, TeamInv, RecordInv, Early, Late, Samples, SamplesUniform,
           BetweenRounds, DroppedStaysEmpty, Collectors
  <1>4. ChildInv'
    BY DEF TypeOK, TeamInv, ChildInv, Early, Late, QuietDirectory, Collectors
  <1>5. ArchiveInv'
    BY DEF TypeOK, ArchiveInv, Early, Late
  <1> QED
    BY <1>1, <1>2, <1>3, <1>4, <1>5

LEMMA PrepareKeeps == ASSUME NEW c \in Collectors, Inv, Prepare(c)
                      PROVE  Inv'
  <1> USE Kinds, Numbers DEF Inv, Prepare, Visit, Launch, arguments, output
  <1>1. TypeOK'
    BY DEF TypeOK, Collectors, Ended
  <1>2. TeamInv'
    BY DEF TypeOK, TeamInv, Collectors, Early, Late
  <1>3. RecordInv'
    BY DEF TypeOK, TeamInv, RecordInv, Early, Late, Samples, SamplesUniform,
           BetweenRounds, DroppedStaysEmpty, Collectors
  <1>4. ChildInv'
    BY DEF TypeOK, TeamInv, ChildInv, Early, Late, QuietDirectory, Collectors
  <1>5. ArchiveInv'
    BY DEF TypeOK, ArchiveInv, Early, Late
  <1> QED
    BY <1>1, <1>2, <1>3, <1>4, <1>5

LEMMA StaticOneKeeps == ASSUME NEW c \in Collectors, Inv, StaticOne(c)
                        PROVE  Inv'
  <1> USE Kinds, Numbers DEF Inv, StaticOne, Visit, Append, arguments, output
  <1>1. TypeOK'
    BY DEF TypeOK, Collectors, Ended
  <1>2. TeamInv'
    BY DEF TypeOK, TeamInv, Collectors, Early, Late
  <1>3. RecordInv'
    BY DEF TypeOK, TeamInv, RecordInv, Early, Late, Samples, SamplesUniform,
           BetweenRounds, DroppedStaysEmpty, Collectors
  <1>4. ChildInv'
    BY DEF TypeOK, TeamInv, ChildInv, Early, Late, QuietDirectory, Collectors
  <1>5. ArchiveInv'
    BY DEF TypeOK, ArchiveInv, Early, Late
  <1> QED
    BY <1>1, <1>2, <1>3, <1>4, <1>5

LEMMA RoundOneKeeps == ASSUME NEW c \in Collectors, Inv, RoundOne(c)
                       PROVE  Inv'
  <1> USE Kinds, Numbers DEF Inv, RoundOne, Visit, Append, Launch, InRound, arguments, output
  <1>1. TypeOK'
    BY DEF TypeOK, Collectors, Ended
  <1>2. TeamInv'
    BY DEF TypeOK, TeamInv, Collectors, Early, Late
  <1>3. RecordInv'
    BY DEF TypeOK, TeamInv, RecordInv, Early, Late, Samples, SamplesUniform,
           BetweenRounds, DroppedStaysEmpty, Collectors
  <1>4. ChildInv'
    BY DEF TypeOK, TeamInv, ChildInv, Early, Late, QuietDirectory, Collectors
  <1>5. ArchiveInv'
    BY DEF TypeOK, ArchiveInv, Early, Late
  <1> QED
    BY <1>1, <1>2, <1>3, <1>4, <1>5

LEMMA SignalKeeps == ASSUME NEW c \in Collectors, Inv, Signal(c)
                     PROVE  Inv'
  <1> USE Kinds, Numbers DEF Inv, Signal, Visit, HasChild, arguments, output
  <1>1. TypeOK'
    BY DEF TypeOK, Collectors, Ended
  <1>2. TeamInv'
    BY DEF TypeOK, TeamInv, Collectors, Early, Late
  <1>3. RecordInv'
    BY DEF TypeOK, TeamInv, RecordInv, Early, Late, Samples, SamplesUniform,
           BetweenRounds, DroppedStaysEmpty, Collectors
  <1>4. ChildInv'
    BY DEF TypeOK, TeamInv, ChildInv, Early, Late, QuietDirectory, Collectors
  <1>5. ArchiveInv'
    BY DEF TypeOK, ArchiveInv, Early, Late
  <1> QED
    BY <1>1, <1>2, <1>3, <1>4, <1>5

LEMMA AfterOneKeeps == ASSUME NEW c \in Collectors, Inv, AfterOne(c)
                       PROVE  Inv'
  <1> USE Kinds, Numbers DEF Inv, AfterOne, Visit, arguments, output
  <1>1. TypeOK'
    BY DEF TypeOK, Collectors, Ended
  <1>2. TeamInv'
    BY DEF TypeOK, TeamInv, Collectors, Early, Late
  <1>3. RecordInv'
    BY DEF TypeOK, TeamInv, RecordInv, Early, Late, Samples, SamplesUniform,
           BetweenRounds, DroppedStaysEmpty, Collectors
  <1>4. ChildInv'
    BY DEF TypeOK, TeamInv, ChildInv, Early, Late, QuietDirectory, Collectors
  <1>5. ArchiveInv'
    BY DEF TypeOK, ArchiveInv, Early, Late
  <1> QED
    BY <1>1, <1>2, <1>3, <1>4, <1>5

LEMMA ExcludeKeeps == ASSUME NEW c \in Collectors, Inv, Exclude(c)
                      PROVE  Inv'
  <1> USE Kinds, Numbers DEF Inv, Exclude, Visit, Excludable, arguments, output
  <1>1. TypeOK'
    BY DEF TypeOK, Collectors, Ended
  <1>2. TeamInv'
    BY DEF TypeOK, TeamInv, Collectors, Early, Late
  <1>3. RecordInv'
    BY DEF TypeOK, TeamInv, RecordInv, Early, Late, Samples, SamplesUniform,
           BetweenRounds, DroppedStaysEmpty, Collectors
  <1>4. ChildInv'
    BY DEF TypeOK, TeamInv, ChildInv, Early, Late, QuietDirectory, Collectors
  <1>5. ArchiveInv'
    BY DEF TypeOK, ArchiveInv, Early, Late
  <1> QED
    BY <1>1, <1>2, <1>3, <1>4, <1>5

LEMMA ExitProcessKeeps == ASSUME NEW c \in Collectors, Inv, ExitProcess(c)
                          PROVE  Inv'
  <1> USE Kinds, Numbers DEF Inv, ExitProcess, arguments, output
  <1>1. TypeOK'
    BY DEF TypeOK, Collectors, Ended
  <1>2. TeamInv'
    BY DEF TypeOK, TeamInv, Collectors, Early, Late
  <1>3. RecordInv'
    BY DEF TypeOK, TeamInv, RecordInv, Early, Late, Samples, SamplesUniform,
           BetweenRounds, DroppedStaysEmpty, Collectors
  <1>4. ChildInv'
    BY DEF TypeOK, TeamInv, ChildInv, Early, Late, QuietDirectory, Collectors
  <1>5. ArchiveInv'
    BY DEF TypeOK, ArchiveInv, Early, Late
  <1> QED
    BY <1>1, <1>2, <1>3, <1>4, <1>5

LEMMA ChildExitsKeeps == ASSUME NEW c \in Launchers, Inv, ChildExits(c)
                         PROVE  Inv'
  <1> USE Kinds DEF Inv, ChildExits, arguments, output
  <1>1. TypeOK'
    BY DEF TypeOK
  <1>2. TeamInv' /\ RecordInv' /\ ArchiveInv'
    BY DEF TeamInv, RecordInv, ArchiveInv, Samples, SamplesUniform,
           DroppedStaysEmpty
  <1>3. ChildInv'
    BY DEF TypeOK, ChildInv, QuietDirectory, Early, Late
  <1> QED
    BY <1>1, <1>2, <1>3

LEMMA StutterKeeps == Inv /\ UNCHANGED vars => Inv'
  BY DEF vars, arguments, output, Inv, TypeOK, TeamInv, RecordInv, ChildInv, ArchiveInv,
         Samples, SamplesUniform, DroppedStaysEmpty, QuietDirectory

LEMMA NextKeeps == Inv /\ [Next]_vars => Inv'
  <1> SUFFICES ASSUME Inv, [Next]_vars
               PROVE  Inv'
    OBVIOUS
  <1>1. ASSUME NEW c \in Collectors, VisitOne(c)
        PROVE  Inv'
    BY <1>1, InitOneKeeps, SkipStaticKeeps, DropUnrequestedKeeps, PrepareKeeps,
       StaticOneKeeps, RoundOneKeeps, SignalKeeps, AfterOneKeeps, AddFileKeeps
       DEF VisitOne
  <1>2. CASE Step
    BY <1>1, <1>2, CreateDirKeeps, InitOverKeeps, PrepareOverKeeps, StaticOverKeeps,
       RoundStartKeeps, RoundOverKeeps, LoopEndsKeeps, ReapKeeps, FinishOverKeeps,
       AfterOverKeeps, CreateArchiveKeeps, SealArchiveKeeps, CleanUpKeeps DEF Step
  <1>3. CASE Disrupt
    BY <1>3, ExcludeKeeps, ExitProcessKeeps, FailKeeps, KillKeeps DEF Disrupt
  <1>4. CASE (\E c \in Launchers : ChildExits(c)) \/ UNCHANGED vars
    BY <1>4, ChildExitsKeeps, StutterKeeps
  <1> QED
    BY <1>2, <1>3, <1>4 DEF Next, Terminated

LEMMA Invariance == Spec => []Inv
  BY InitInv, NextKeeps, PTL DEF Spec

-----------------------------------------------------------------------------
\* The theorems.

\* Between rounds the files hold one sample per round and static data once, for
\* every set of collectors and in whichever order the passes visit them.
THEOREM RoundsAreWhole == Spec => []SamplesUniform
  <1>1. Inv => SamplesUniform
    BY DEF Inv, RecordInv
  <1> QED
    BY <1>1, Invariance, PTL

\* The recorder's variables have values of their kinds, for any collectors.
THEOREM RecorderTypes == Spec => []TypeOK
  <1>1. Inv => TypeOK
    BY DEF Inv
  <1> QED
    BY <1>1, Invariance, PTL

\* A collector excluded while preparing writes nothing, ever.
THEOREM DroppedIsSilent == Spec => []DroppedStaysEmpty
  <1>1. Inv => DroppedStaysEmpty
    BY DEF Inv, RecordInv
  <1> QED
    BY <1>1, Invariance, PTL

\* Every profiler has been waited for before its profile is processed and before
\* the directory is archived, however many there are.
THEOREM DirectoryIsQuiet == Spec => []QuietDirectory
  <1>1. Inv => QuietDirectory
    BY DEF Inv, ChildInv
  <1> QED
    BY <1>1, Invariance, PTL

-----------------------------------------------------------------------------
\* Recorder implements Recording.

LEMMA InitImplements == Init => Promise!Init
  BY Kinds DEF Init, Promise!Init, Status, Collectors

\* The file of a collector, once the rounds are over, is what Recording says.
LEMMA FileIsContent == ASSUME Inv, phase = "archive", NEW c \in Collectors
                       PROVE  records[c] \in Promise!Content(c)
  <1> USE Kinds DEF Inv, Promise!Content
  <1>1. CASE c \in collectors
    BY <1>1 DEF RecordInv, SamplesUniform, BetweenRounds
  <1>2. CASE c \in dropped
    BY <1>2 DEF RecordInv, DroppedStaysEmpty, TeamInv
  <1> QED
    BY <1>1, <1>2 DEF TeamInv, Late

LEMMA SameWith == ASSUME NEW c, NEW n
                  PROVE  With(c, n) = Promise!With(c, n)
  BY DEF With, Promise!With

LEMMA AddFileImplements == ASSUME Inv, NEW c \in Collectors, AddFile(c)
                           PROVE  Promise!Add(c)
  <1> USE DEF Inv, AddFile, Visit
  <1>1. Status = "archiving" /\ Status' = "archiving"
    BY DEF Status
  <1>2. c \in Collectors \ DOMAIN archive
    BY DEF ArchiveInv
  <1>3. records[c] \in Promise!Content(c)
    BY FileIsContent
  <1>4. archive' = Promise!With(c, records[c])
    BY SameWith
  <1> QED
    BY <1>1, <1>2, <1>3, <1>4 DEF Promise!Add, arguments

LEMMA FailImplements == ASSUME Inv, Fail
                        PROVE  Promise!Break \/ Promise!Lose
  <1> USE DEF Inv, Fail
  <1>1. Status' = "failed"
    BY DEF Status
  <1>2. CASE phase # "archive"
    BY <1>1, <1>2 DEF Fallible, Status, Promise!Lose, arguments, output
  <1>3. CASE phase = "archive"
    <2>1. \/ archive' = archive
          \/ \E c \in Collectors \ DOMAIN archive : \E m \in Promise!Content(c) :
                \E n \in 0..m : archive' = Promise!With(c, n)
      <3>1. ASSUME NEW c \in todo, NEW n \in 0..records[c], archive' = With(c, n)
            PROVE  \E d \in Collectors \ DOMAIN archive : \E m \in Promise!Content(d) :
                      \E k \in 0..m : archive' = Promise!With(d, k)
        <4>1. c \in Collectors \ DOMAIN archive
          BY <1>3 DEF ArchiveInv, TypeOK
        <4>2. records[c] \in Promise!Content(c)
          BY <1>3, <4>1, FileIsContent
        <4>3. archive' = Promise!With(c, n)
          BY <3>1, SameWith
        <4> QED
          BY <4>1, <4>2, <4>3
      <3> QED
        BY <1>3, <3>1 DEF Broken
    <2> QED
      BY <1>1, <1>3, <2>1 DEF Status, Promise!Break, Broken, arguments
  <1> QED
    BY <1>2, <1>3

LEMMA StepImplements == Inv /\ [Next]_vars => [Promise!Next]_(Promise!vars)
  <1> SUFFICES ASSUME Inv, [Next]_vars
               PROVE  [Promise!Next]_(Promise!vars)
    OBVIOUS
  <1> USE DEF arguments, output, Status, Promise!vars, Promise!Next
  <1>1. ASSUME NEW c \in Collectors, VisitOne(c)
        PROVE  Promise!Add(c) \/ UNCHANGED Promise!vars
    BY <1>1, AddFileImplements
       DEF VisitOne, Visit, InitOne, SkipStatic, DropUnrequested, Prepare, StaticOne,
           RoundOne, Signal, AfterOne
  <1>2. CASE CreateDir \/ InitOver \/ PrepareOver
    BY <1>2 DEF CreateDir, InitOver, PrepareOver, Begin, Over
  <1>3. CASE StaticOver
    BY <1>3 DEF StaticOver, Over, Promise!Start
  <1>4. CASE RoundStart
    BY <1>4 DEF RoundStart, Begin
  <1>5. CASE RoundOver
    BY <1>5 DEF RoundOver, RoundDone, Over, Inv, RecordInv, Promise!Round
  <1>6. CASE LoopEnds
    BY <1>6 DEF LoopEnds, Begin, Promise!Close
  <1>7. CASE Reap \/ FinishOver \/ AfterOver
    BY <1>7 DEF Reap, FinishOver, AfterOver, Begin, Over
  <1>8. CASE CreateArchive
    BY <1>8 DEF CreateArchive, Begin, Promise!Open
  <1>9. CASE SealArchive
    <2>1. DOMAIN archive = Collectors
      BY <1>9 DEF SealArchive, Over, Inv, ArchiveInv
    <2> QED
      BY <1>9, <2>1 DEF SealArchive, Over, Promise!Seal
  <1>10. CASE CleanUp
    BY <1>10 DEF CleanUp
  <1>11. CASE Fail
    BY <1>11, FailImplements
  <1>12. CASE Kill
    BY <1>12 DEF Kill, Ended, Inv, TypeOK, Promise!Lose, Promise!Break
  <1>13. CASE \E c \in Collectors : ExitProcess(c)
    BY <1>13 DEF ExitProcess, Promise!Lose
  <1>14. CASE (\E c \in Collectors : Exclude(c)) \/ (\E c \in Launchers : ChildExits(c))
    BY <1>14 DEF Exclude, Visit, ChildExits
  <1>15. CASE UNCHANGED vars
    BY <1>15 DEF vars
  <1> QED
    BY <1>1, <1>2, <1>3, <1>4, <1>5, <1>6, <1>7, <1>8, <1>9, <1>10, <1>11, <1>12,
       <1>13, <1>14, <1>15
       DEF Next, Step, Disrupt, Terminated

\* The code makes the archive Recording promises, for all collectors at once:
\* complete rounds, all static data and all that was asked for.  Where it fails or
\* is killed it leaves none, or one that was begun: whole files, and one cut short.
THEOREM RecorderImplementsRecording == Spec => ImplementsRecording
  BY InitImplements, StepImplements, Invariance, PTL
     DEF Spec, ImplementsRecording, Promise!Spec
=============================================================================
