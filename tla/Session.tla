------------------------------ MODULE Session ------------------------------
(***************************************************************************)
(* Runs of the probe: main and the test functions of                       *)
(* src/w800_custom_stub_probe.py against the board, over the commands that *)
(* the other modules model.  A run is a script, the sequence of the calls  *)
(* that its options ask for; each call is one operation on the stub or on  *)
(* a file, and the first one that raises ends the run.                     *)
(*                                                                         *)
(* The flash counts in sectors; the first one stands for the protected     *)
(* 0x2000 bytes.  Of the transfers only their outcomes are left:           *)
(*   - the stub erases and programs sector by sector, and stops when it    *)
(*     needs data that no longer come;                                     *)
(*   - what a read returns is what the flash holds (TakesRangeInOrder);    *)
(*   - what xmodem_send reports as sent may, after two disturbances of the *)
(*     line, not have been taken (SentMeansWritten);                       *)
(*   - everything may be interrupted: by the line, by the chip, by a loss  *)
(*     of power, or by the user.                                           *)
(* Of the rates there are the one the probe starts with and one faster.    *)
(* The backups have fixed names in the directory that --out gives: a run   *)
(* with the --out of an earlier one overwrites what that one has left.     *)
(***************************************************************************)
EXTENDS Naturals, Sequences, SequencesExt

CONSTANTS
  Size,         \* sectors of the chip
  Scratch,      \* the sectors at --scratch-offset
  OptionSets,   \* the sets of options that runs are started with
  Dirs,         \* the directories that --out may name
  DefaultDir,   \* w800_probe_out
  MaxRuns,      \* runs in all
  MaxFaults     \* interruptions in all

Sectors == 1 .. Size
Protected == {1}
Writable == Sectors \ Protected

(* The options of main that lead to test functions. *)
Options == {"benchmark", "mutation", "bauds", "stress", "full", "compressed",
            "restore"}

ASSUME SizeAssumption == Size \in Nat /\ Size > 1 /\ Scratch \subseteq Writable
ASSUME OptionAssumption == OptionSets \subseteq SUBSET Options
ASSUME DirAssumption == DefaultDir \in Dirs
ASSUME SessionBounds == MaxRuns \in Nat \ {0} /\ MaxFaults \in Nat

(* What a sector holds: the boot data or the user's, nothing, the pattern  *)
(* of the tests, or a part of something.                                   *)
Contents == {"boot", "user", "erased", "pattern", "torn"}

Default == 115200
Fast == 460800

(* The backups of the two cycles in each directory. *)
Cycles == {"full", "compressed"}
Files == Dirs \X Cycles

(* Where --restore-compressed-backup is not given, the name of no interest. *)
NoBackup == <<DefaultDir, "full">>

VARIABLES
  flash,        \* the contents of the sectors
  owed,         \* what the user is to have in them in the end (history)
  files,        \* the backup files; <<>> where there is none
  alive,        \* the stub runs
  stubRate,     \* at this rate
  work,         \* what it still has to erase and to program
  runs,         \* runs started
  options,      \* those of the last run
  out,          \* its --out
  backup,       \* the file its --restore-compressed-backup names
  before,       \* what the flash held when the stub first answered it
  step,         \* the call the run is at, 0 between runs
  waiting,      \* that call has been made and has not returned
  kept,         \* "original" or "backup" of the test function
  rate,         \* ser.baudrate
  verdict,      \* how the run has ended
  faults        \* interruptions so far

board == <<flash, alive, stubRate, work>>
run == <<runs, options, out, backup>>
probe == <<step, waiting, kept, rate, verdict>>
vars == <<board, owed, before, files, run, probe, faults>>

-----------------------------------------------------------------------------
(* The calls that scripts are made of. *)

(* A command that changes nothing, or must be refused. *)
Ask == <<[do |-> "ask"]>>
Rate(r) == <<[do |-> "rate", rate |-> r]>>
Erase(range) == <<[do |-> "erase", range |-> range]>>
(* 0x91 ("raw") or 0x97 ("stream") of the test pattern or of what was kept. *)
Write(how, range, from) == <<[do |-> how, range |-> range, from |-> from]>>
(* A read whose result must be as wanted; Take keeps it as well. *)
See(range, want) ==
  <<[do |-> "read", range |-> range, want |-> want, keep |-> FALSE]>>
Take(range, want) ==
  <<[do |-> "read", range |-> range, want |-> want, keep |-> TRUE]>>
Save(kind) == <<[do |-> "save", kind |-> kind]>>
Load == <<[do |-> "load"]>>

-----------------------------------------------------------------------------
(* The test functions. *)

(* Identification, reads, checksums, then the rates, then what is refused. *)
test_obk_protocol == Ask \o Rate(Fast) \o Rate(Default) \o Ask

(* 0x8F for several lengths. *)
benchmark_crc32 == Ask

test_obk_flash_mutation ==
  Take(Scratch, "erased")
    \o Write("raw", Scratch, "pattern") \o See(Scratch, "pattern")
    \o Erase(Scratch) \o See(Scratch, "kept")
    \o Write("stream", Scratch, "pattern") \o See(Scratch, "pattern")
    \o Erase(Scratch) \o See(Scratch, "kept")
    \o Ask

test_obk_compression_stress ==
  Take(Scratch, "erased") \o Rate(Fast)
    \o Write("stream", Scratch, "pattern") \o See(Scratch, "pattern")
    \o Erase(Scratch) \o See(Scratch, "kept") \o Rate(Default)

(* Mutant: the backup is saved when it is needed. *)
full_chip_cycle_saving_late ==
  Rate(Fast) \o Take(Sectors, "anything")
    \o Erase(Writable)
    \o See(Protected, "kept") \o See(Writable, "erased")
    \o Save("full")
    \o Write("raw", Writable, "kept") \o See(Sectors, "kept") \o Rate(Default)

test_full_chip_cycle ==
  Rate(Fast) \o Take(Sectors, "anything") \o Save("full")
    \o Erase(Writable)
    \o See(Protected, "kept") \o See(Writable, "erased")
    \o Write("raw", Writable, "kept") \o See(Sectors, "kept") \o Rate(Default)

(* Mutant: the protected part is compared, but not what was restored. *)
compressed_cycle_unverified ==
  Rate(Fast) \o Take(Sectors, "anything") \o Save("compressed")
    \o Erase(Writable) \o See(Protected, "kept")
    \o Write("stream", Writable, "kept") \o See(Protected, "kept")
    \o Rate(Default)

test_compressed_full_chip_cycle ==
  Rate(Fast) \o Take(Sectors, "anything") \o Save("compressed")
    \o Erase(Writable) \o See(Protected, "kept")
    \o Write("stream", Writable, "kept") \o See(Sectors, "kept")
    \o Rate(Default)

(* Mutant: refuses when anything differs from the backup. *)
restore_of_unchanged_flash ==
  Load \o See(Sectors, "kept") \o Rate(Fast)
    \o Write("stream", Writable, "kept") \o See(Sectors, "kept")
    \o Rate(Default)

restore_compressed_backup ==
  Load \o See(Protected, "kept") \o Rate(Fast)
    \o Write("stream", Writable, "kept") \o See(Sectors, "kept")
    \o Rate(Default)

If(option, calls) == IF option \in options THEN calls ELSE <<>>

(* What main does after the upload; at the end it reads and dumps memory. *)
Script ==
  test_obk_protocol
    \o If("benchmark", benchmark_crc32)
    \o If("mutation", test_obk_flash_mutation)
    \o If("bauds", test_obk_flash_mutation \o Rate(Fast)
                     \o test_obk_flash_mutation \o Rate(Default))
    \o If("stress", test_obk_compression_stress)
    \o If("full", test_full_chip_cycle)
    \o If("compressed", test_compressed_full_chip_cycle)
    \o If("restore", restore_compressed_backup)
    \o Ask

-----------------------------------------------------------------------------
Init ==
  /\ \E free \in BOOLEAN :
       flash = [s \in Sectors |->
                  IF s \in Protected THEN "boot"
                  ELSE IF s \in Scratch /\ free THEN "erased" ELSE "user"]
  /\ owed = flash
  /\ files = [f \in Files |-> <<>>]
  /\ alive = FALSE /\ stubRate = Default /\ work = <<>>
  /\ runs = 0 /\ options = {} /\ before = flash
  /\ out = DefaultDir /\ backup = NoBackup
  /\ step = 0 /\ waiting = FALSE /\ kept = <<>> /\ rate = Default
  /\ verdict = "none" /\ faults = 0

(* With the upload the board has been reset; without, the stub is taken to *)
(* run at the rate that --baud gives.  --out may name any directory again  *)
(* (it matters where a cycle is asked for), and the file to restore may be *)
(* any: missing, cut short, or of whatever.                                *)
StartRun ==
  /\ step = 0 /\ runs < MaxRuns /\ runs' = runs + 1
  /\ options' \in OptionSets
  /\ out' \in IF options' \cap Cycles # {} THEN Dirs ELSE {DefaultDir}
  /\ backup' \in IF "restore" \in options' THEN Files ELSE {NoBackup}
  /\ \/ /\ work = <<>>
        /\ alive' = TRUE /\ stubRate' = Default /\ rate' = Default
     \/ rate' \in {Default, Fast} /\ UNCHANGED <<alive, stubRate>>
  /\ step' = 1 /\ waiting' = FALSE /\ kept' = <<>> /\ verdict' = "running"
  /\ UNCHANGED <<flash, work, owed, before, files, faults>>

-----------------------------------------------------------------------------
(* The probe. *)

Running == step # 0
At(do) == Running /\ Script[step].do = do
Op == Script[step]

ProceedKeeping(data) ==
  /\ waiting' = FALSE
  /\ IF step < Len(Script)
     THEN step' = step + 1 /\ kept' = data /\ UNCHANGED verdict
     ELSE step' = 0 /\ kept' = <<>> /\ verdict' = "passed"

Proceed == ProceedKeeping(kept)

(* An exception leaves main. *)
Raise ==
  /\ step' = 0 /\ verdict' = "failed" /\ waiting' = FALSE
  /\ kept' = <<>> /\ UNCHANGED rate

(* The stub hears the probe and is in its command loop. *)
Reachable == alive /\ rate = stubRate /\ work = <<>>

Calls(do) == At(do) /\ ~waiting /\ Reachable
Returns(do) == At(do) /\ waiting

Answered ==
  /\ Calls("ask") /\ Proceed
  /\ before' = IF step = 1 THEN flash ELSE before
  /\ UNCHANGED <<board, owed, files, run, rate, faults>>

(* change_obk_baud: the stub changes first, then the probe follows. *)
SendRate ==
  /\ Calls("rate") /\ stubRate' = Op.rate /\ waiting' = TRUE
  /\ UNCHANGED <<flash, alive, work, owed, before, files, run, step, kept, rate,
                 verdict, faults>>

FollowRate ==
  /\ Returns("rate") /\ alive
  /\ rate' = Op.rate /\ Proceed
  /\ UNCHANGED <<board, owed, before, files, run, faults>>

Data(range) == [s \in range |-> flash[s]]

Wanted(data, want) ==
  CASE want = "erased" -> \A s \in DOMAIN data : data[s] = "erased"
    [] want = "pattern" -> \A s \in DOMAIN data : data[s] = "pattern"
    [] want = "kept" -> \A s \in DOMAIN data : data[s] = kept[s]
    [] want = "anything" -> TRUE

ReadAsWanted ==
  /\ Calls("read") /\ Wanted(Data(Op.range), Op.want)
  /\ ProceedKeeping(IF Op.keep THEN Data(Op.range) ELSE kept)
  /\ UNCHANGED <<board, owed, before, files, run, rate, faults>>

ReadDiffers ==
  /\ Calls("read") /\ ~Wanted(Data(Op.range), Op.want)
  /\ Raise
  /\ UNCHANGED <<board, owed, before, files, run, faults>>

Complete(f) == Len(files[f]) = Size

(* The path that main passes to the cycle. *)
Target == <<out, Op.kind>>

(* Path.write_bytes opens and truncates the file, then writes it.  Where   *)
(* it replaces a complete backup, that one is gone: from then on the user  *)
(* is owed what this run has found in the flash.                           *)
StartSave ==
  /\ At("save") /\ ~waiting
  /\ files' = [files EXCEPT ![Target] = SubSeq(kept, 1, 1)]
  /\ owed' = IF Complete(Target) THEN kept ELSE owed
  /\ waiting' = TRUE
  /\ UNCHANGED <<board, before, run, step, kept, rate, verdict, faults>>

Saved ==
  /\ Returns("save")
  /\ files' = [files EXCEPT ![Target] = SubSeq(kept, 1, Size)]
  /\ Proceed
  /\ UNCHANGED <<board, owed, before, run, rate, faults>>

(* The user asks for what the file holds, be it what was there at first or *)
(* not.                                                                    *)
LoadBackup ==
  /\ At("load") /\ Complete(backup)
  /\ ProceedKeeping(files[backup])
  /\ owed' = files[backup]
  /\ UNCHANGED <<board, before, files, run, rate, faults>>

BackupTooShort ==
  /\ At("load") /\ ~Complete(backup)
  /\ Raise
  /\ UNCHANGED <<board, owed, before, files, run, faults>>

-----------------------------------------------------------------------------
(* Commands that change the flash.  Each element of work is a sector, what *)
(* it will hold, and whether the stub needs data from the probe for it.    *)

Source(s) == IF Op.from = "kept" THEN kept[s] ELSE "pattern"

Task(s, content, fed) == [sector |-> s, holds |-> content, fed |-> fed]

(* What is to be done for each sector of a range, in ascending order. *)
InOrder(range, tasks) ==
  FlattenSeq([s \in Sectors |-> IF s \in range THEN tasks[s] ELSE <<>>])

(* 0x04 and 0x05 erase; 0x91 erases the whole range before the first block *)
(* of data; 0x97 erases each sector as the data reach it.                  *)
Tasks ==
  LET Erasing(fed) == [s \in Op.range |-> <<Task(s, "erased", fed)>>]
      Programming == [s \in Op.range |-> <<Task(s, Source(s), TRUE)>>]
  IN CASE Op.do = "erase" -> InOrder(Op.range, Erasing(FALSE))
       [] Op.do = "raw" -> InOrder(Op.range, Erasing(FALSE))
                             \o InOrder(Op.range, Programming)
       [] Op.do = "stream" -> InOrder(Op.range,
            [s \in Op.range |-> Erasing(TRUE)[s] \o Programming[s]])

Modifies == {"erase", "raw", "stream"}

SendTask ==
  /\ \E do \in Modifies : Calls(do)
  /\ work' = Tasks /\ waiting' = TRUE
  /\ UNCHANGED <<flash, alive, stubRate, owed, before, files, run, step, kept,
                 rate, verdict, faults>>

TaskDone ==
  /\ \E do \in Modifies : Returns(do)
  /\ alive /\ work = <<>> /\ Proceed
  /\ UNCHANGED <<board, owed, before, files, run, rate, faults>>

(* The probe is in xmodem_send. *)
Feeding == Running /\ waiting /\ Op.do \in Modifies

StubWorks ==
  /\ work # <<>> /\ (Head(work).fed => Feeding)
  /\ flash' = [flash EXCEPT ![Head(work).sector] = Head(work).holds]
  /\ work' = Tail(work)
  /\ UNCHANGED <<alive, stubRate, owed, before, files, run, probe, faults>>

(* The sector in hand is as it was, or a part of what it was to become. *)
Broken ==
  IF work = <<>> THEN {flash}
  ELSE {flash, [flash EXCEPT ![Head(work).sector] = "torn"]}

(* No more data: the stub gives up and returns to its loop. *)
StubGivesUp ==
  /\ work # <<>> /\ Head(work).fed /\ ~Feeding
  /\ flash' \in Broken /\ work' = <<>>
  /\ UNCHANGED <<alive, stubRate, owed, before, files, run, probe, faults>>

(* Nobody answers: there is no stub, or at another rate, or a busy one. *)
Unanswered ==
  /\ Running /\ Op.do \notin {"save", "load"}
  /\ IF waiting THEN ~alive ELSE ~Reachable
  /\ Raise
  /\ UNCHANGED <<board, owed, before, files, run, faults>>

-----------------------------------------------------------------------------
(* Interruptions. *)

Fault(n) == faults + n <= MaxFaults /\ faults' = faults + n

(* The line, the disk or the user ends the run at any point of it; what    *)
(* the stub was told before takes its course.                              *)
Interrupted ==
  /\ Running /\ Fault(1) /\ Raise
  /\ UNCHANGED <<board, owed, before, files, run>>

(* A sector does not erase or program: the stub says so and stops. *)
ChipFails ==
  /\ work # <<>> /\ (Head(work).fed => Feeding) /\ Fault(1)
  /\ flash' \in Broken /\ work' = <<>>
  /\ IF Feeding THEN Raise ELSE UNCHANGED probe
  /\ UNCHANGED <<alive, stubRate, owed, before, files, run>>

(* xmodem_send counts answers to blocks that the stub has not taken. *)
SentButNotTaken ==
  /\ Feeding /\ Op.do # "erase" /\ work # <<>> /\ Head(work).fed /\ Fault(2)
  /\ flash' \in Broken /\ work' = <<>>
  /\ Proceed
  /\ UNCHANGED <<alive, stubRate, owed, before, files, run, rate>>

PowerLost ==
  /\ alive /\ Fault(1)
  /\ flash' \in Broken /\ work' = <<>>
  /\ alive' = FALSE
  /\ UNCHANGED <<stubRate, owed, before, files, run, probe>>

-----------------------------------------------------------------------------
ProbeSteps ==
  \/ Answered \/ SendRate \/ FollowRate \/ ReadAsWanted \/ ReadDiffers
  \/ StartSave \/ Saved \/ LoadBackup \/ BackupTooShort
  \/ SendTask \/ TaskDone \/ Unanswered

StubSteps == StubWorks \/ StubGivesUp

Interruption == Interrupted \/ ChipFails \/ SentButNotTaken \/ PowerLost

Next == StartRun \/ ProbeSteps \/ StubSteps \/ Interruption

(* A run that was started goes on, and so does the stub.  Nobody has to    *)
(* start one.                                                              *)
Spec ==
  /\ Init /\ [][Next]_vars
  /\ WF_vars(ProbeSteps) /\ WF_vars(StubSteps)

-----------------------------------------------------------------------------
(* Properties. *)

(* At every moment of every run, also when it is interrupted there, what   *)
(* is owed to the user in a sector is there or in a complete backup.  What *)
(* is owed is what the flash held at first, until the user replaces it: by *)
(* --restore-compressed-backup with what that file holds, and by a cycle   *)
(* whose --out has a complete backup of the same name with what that cycle *)
(* finds.  This is a condition on the user: a cycle that was interrupted   *)
(* with the flash erased, and is then repeated with the same --out,        *)
(* overwrites the only backup of what was there at first.  The program     *)
(* does nothing against that, and then only the erased flash is kept.      *)
UserDataKept ==
  \A s \in Sectors :
    \/ owed[s] = "erased"
    \/ flash[s] = owed[s]
    \/ \E f \in Files : Complete(f) /\ files[f][s] = owed[s]

(* A run that passes has left the whole flash as it found it, or as the    *)
(* backup has it that it was to restore, whatever xmodem_send believed on  *)
(* the way; and both sides at the rate of the next run.                    *)
PassedMeansRestored ==
  verdict = "passed" =>
    /\ flash = IF "restore" \in options THEN files[backup] ELSE before
    /\ rate = Default /\ stubRate = Default

(* However earlier runs have left the flash: with a complete backup, a     *)
(* stub that answers and nothing going wrong any more, a restore brings    *)
(* everything back and passes.                                             *)
RestoreStarts ==
  /\ step = 1 /\ options = {"restore"} /\ Reachable /\ faults = MaxFaults
  /\ Complete(backup)
RestoreRecovers ==
  RestoreStarts ~> (verdict = "passed" /\ flash = files[backup])

=============================================================================
