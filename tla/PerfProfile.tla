---------------------------- MODULE PerfProfile ----------------------------
(***************************************************************************)
(* The collector behind --profile (data/perf_profile.rs) and the file it   *)
(* shares with the perf record it launches: aperf has opened the file for  *)
(* appending and appends a record of its own after each round, as it does  *)
(* for every collector (data.rs), while perf writes blocks of samples at   *)
(* offsets of its own and, when it ends, a header that says how many.      *)
(* When the recording is over perf report reads the file, and what it      *)
(* prints is what the report of aperf shows.                               *)
(***************************************************************************)
EXTENDS Integers, Sequences

CONSTANTS MaxBlocks,  \* bound on the blocks perf writes
          MaxRounds   \* bound on the rounds of the recording

VARIABLES stage,   \* where the collector is, or how the recording ended
          perf,    \* PERF_CHILD: the state of the child
          file,    \* the cells of the file perf writes
          shared,  \* aperf's handle is of that file
          blocks,  \* the blocks perf has written
          rounds,  \* the rounds there have been
          top,     \* the text in top_functions
          shown    \* what the report shows

profileVars == <<stage, perf, file, shared, blocks, rounds, top, shown>>

ProfileOver == {"done", "failed"}

\* What the cells of the file hold.  The header has the number of blocks.
Header(n) == [of |-> "header", number |-> n]
Block(n) == [of |-> "perf", number |-> n]
Features == [of |-> "features", number |-> 0]
Record == [of |-> "aperf", number |-> 0]

\* The texts of top_functions: of n blocks, or one of the messages.
Functions(n) == [of |-> "functions", number |-> n]
Message(m) == [of |-> m, number |-> 0]
NoData == Message("No data collected")
Skipped == Message("Skipped")
Cut == Message("")
Missing == Message("no file")

\* init_data_type has created the file.
ProfileInit == /\ stage = "prepare"
               /\ perf = "none"
               /\ file = <<>>
               /\ shared = TRUE
               /\ blocks = 0 /\ rounds = 0
               /\ top = Missing
               /\ shown = Missing

-----------------------------------------------------------------------------
\* perf record.

\* The file with the cell c written at place i.
WrittenAt(f, i, c) ==
    [j \in 1..(IF i > Len(f) THEN i ELSE Len(f)) |-> IF j = i THEN c ELSE f[j]]

\* perf truncates the file, or when it is not empty, since the first round was
\* faster, gives it another name and creates one of its own.
PerfOpens == /\ \/ perf = "started" /\ perf' = "running"
                \/ perf = "dying" /\ perf' = "stopping"
             /\ shared' = (file = <<>>)
             /\ file' = <<Header(0)>>
             /\ UNCHANGED <<stage, blocks, rounds, top, shown>>

\* A block is written behind the block before, over whatever is there.
PerfWrites == /\ perf \in {"running", "stopping"} /\ blocks < MaxBlocks
              /\ file' = WrittenAt(file, blocks + 2, Block(blocks + 1))
              /\ blocks' = blocks + 1
              /\ UNCHANGED <<stage, perf, shared, rounds, top, shown>>

\* The period is over, or perf has the signal: it ends the file.
PerfEnds == /\ perf \in {"running", "stopping"}
            /\ perf' = "ended"
            /\ file' = WrittenAt(WrittenAt(file, 1, Header(blocks)), blocks + 2, Features)
            /\ UNCHANGED <<stage, shared, blocks, rounds, top, shown>>

\* perf may not profile the machine, or has the signal before it has begun.
PerfGivesUp == /\ perf \in {"started", "dying"}
               /\ perf' = "ended"
               /\ UNCHANGED <<stage, file, shared, blocks, rounds, top, shown>>

-----------------------------------------------------------------------------
\* aperf.

\* perf record is launched; when there is no perf the collector is excluded.
Prepare == /\ stage = "prepare"
           /\ \/ perf' = "started" /\ stage' = "record"
              \/ perf' = perf /\ stage' = "done"
           /\ UNCHANGED <<file, shared, blocks, rounds, top, shown>>

\* Mutant: the file is opened for writing, at its beginning.
Appended_Written(f) == WrittenAt(f, rounds + 1, Record)

\* The record goes to the end of the file.
Appended(f) == Append(f, Record)

\* A round: collect_data does nothing, write_to_file appends the record.
Round == /\ stage = "record" /\ rounds < MaxRounds
         /\ file' = IF shared THEN Appended(file) ELSE file
         /\ rounds' = rounds + 1
         /\ UNCHANGED <<stage, perf, shared, blocks, top, shown>>

\* finish_data_collection: the signal, which a child not yet waited for can be sent.
FinishRecording == /\ stage = "record"
                   /\ stage' = "wait"
                   /\ perf' = CASE perf = "started" -> "dying"
                                [] perf = "running" -> "stopping"
                                [] perf = "ended"   -> "ended"
                   /\ UNCHANGED <<file, shared, blocks, rounds, top, shown>>

\* wait() returns.
Reaped == perf = "ended"

\* top_functions is created, empty.
CreateTop == /\ stage = "wait" /\ Reaped
             /\ stage' = "report"
             /\ top' = Cut
             /\ UNCHANGED <<perf, file, shared, blocks, rounds, shown>>

\* perf report finds what a header, all its blocks and the features say.
ReadByPerf(f) == /\ f # <<>> /\ f[1].of = "header" /\ f[1].number > 0
                 /\ Len(f) >= f[1].number + 2
                 /\ \A i \in 1..f[1].number : f[i + 1] = Block(i)
                 /\ f[f[1].number + 2] = Features

\* What perf report prints, or that it cannot be run.
PerfReport == /\ stage = "report"
              /\ \/ top' = IF ReadByPerf(file) THEN Functions(file[1].number) ELSE NoData
                 \/ top' = Skipped
              /\ stage' = "done"
              /\ UNCHANGED <<perf, file, shared, blocks, rounds, shown>>

\* Something fails in the recording or here: kill, the file, text that is not
\* UTF-8; or aperf is killed.
ProfileFails == /\ stage \notin ProfileOver
                /\ stage' = "failed"
                /\ UNCHANGED <<perf, file, shared, blocks, rounds, top, shown>>

\* A report of the directory: custom_raw_data_parser and get_data.
Show == /\ stage \in ProfileOver /\ shown = Missing
        /\ shown' = IF top = Missing THEN NoData ELSE top
        /\ UNCHANGED <<stage, perf, file, shared, blocks, rounds, top>>

-----------------------------------------------------------------------------
Perf == PerfOpens \/ PerfWrites \/ PerfEnds \/ PerfGivesUp
Aperf == Prepare \/ Round \/ FinishRecording \/ CreateTop \/ PerfReport \/ ProfileFails \/ Show

ProfileTerminated == shown # Missing /\ perf \in {"none", "ended"} /\ UNCHANGED profileVars

ProfileNext == Perf \/ Aperf \/ ProfileTerminated

ProfileSpec == ProfileInit /\ [][ProfileNext]_profileVars

-----------------------------------------------------------------------------
\* Properties.

\* The kinds of value aperf and perf keep.
ProfileTypeOK == /\ stage \in {"prepare", "record", "wait", "report"} \cup ProfileOver
                 /\ perf \in {"none", "started", "dying", "running", "stopping", "ended"}
                 /\ file \in Seq([of : {"header", "perf", "features", "aperf"}, number : Nat])
                 /\ shared \in BOOLEAN
                 /\ blocks \in Nat /\ rounds \in Nat
                 /\ top.number \in Nat /\ shown.number \in Nat

\* The functions that are shown are those of all that perf has recorded, whatever
\* aperf wrote to the same file and whenever; and data is said to be missing only
\* when perf has recorded none, or the recording was not finished.
TopFunctionsWhole ==
    shown # Missing =>
        /\ shown.of = "functions" => perf = "ended" /\ shown.number = blocks
        /\ shown = NoData => blocks = 0 \/ stage = "failed"
=============================================================================
