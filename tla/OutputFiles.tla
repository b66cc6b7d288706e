---------------------------- MODULE OutputFiles ----------------------------
(***************************************************************************)
(* The files that test programs write: the report that --gtest_output asks *)
(* for, and the file that tells of a program that ended too early.         *)
(* Processes, one for each run of a program, share a file system; between  *)
(* two of its calls others may come.                                       *)
(*                                                                         *)
(* A path is a sequence of words: "/" and the names, or parts of names,    *)
(* between them.                                                           *)
(***************************************************************************)
EXTENDS Integers, FiniteSets, SequencesExt

CONSTANTS
  Processes,
  Scenarios,  \* what each process is asked to do, and the files at first
  Old,        \* who wrote the files that are there at first
  Nobody,     \* what a file holds where nobody has written
  Words,      \* what paths are made of: the separator, names and parts of names
  Numerals    \* how the numbers of an int are written

VARIABLES
  scenario,
  at,                    \* where each process is
  cwd,
  original_working_dir,  \* of the UnitTestImpl
  output_file,           \* of the listener, and of the list of tests
  number,                \* of GenerateUniqueFileName
  output_dir, to_create, \* the directory looked at, those to create behind it
  written, iteration,    \* how much of the report is written, and which one
  dirs, files,           \* the file system: directories, contents of files
  seen_done              \* the processes that were done when this one began

placeVars == <<cwd, original_working_dir>>
stepVars  == <<output_file, number, output_dir, to_create, written, iteration>>
fsVars    == <<dirs, files>>
outputVars == <<scenario, at, placeVars, stepVars, fsVars, seen_done>>

-----------------------------------------------------------------------------
(* FilePath: names of files. *)

kCurrentDirectoryString == <<".", "/">>

\* Separators that follow another one are left out.
Normalize(path) ==
  LET out[k \in 0 .. Len(path)] ==
        IF k = 0 THEN <<>>
        ELSE IF path[k] = "/" /\ out[k - 1] # <<>> /\ Last(out[k - 1]) = "/" THEN out[k - 1]
        ELSE Append(out[k - 1], path[k])
  IN  out[Len(path)]

FindLastPathSeparator(path) == SelectLastInSeq(path, LAMBDA c : c = "/")
RemoveDirectoryName(path) == SubSeq(path, FindLastPathSeparator(path) + 1, Len(path))
RemoveFileName(path) ==
  IF FindLastPathSeparator(path) = 0 THEN kCurrentDirectoryString
  ELSE SubSeq(path, 1, FindLastPathSeparator(path))
IsAbsolutePath(path) == path # <<>> /\ path[1] = "/"
IsDirectory(path) == path # <<>> /\ Last(path) = "/"
RemoveTrailingPathSeparator(path) == IF IsDirectory(path) THEN Front(path) ELSE path

ConcatPaths(directory, relative_path) ==
  IF directory = <<>> THEN relative_path
  ELSE Normalize(RemoveTrailingPathSeparator(directory) \o <<"/">> \o relative_path)

MakeFileName(directory, base_name, n, extension) ==
  ConcatPaths(directory,
    base_name \o (IF n = 0 THEN <<>> ELSE <<"_", Numerals[n]>>) \o <<".", extension>>)

\* A path is read from the left: the names that a separator ends, and the one
\* that is not ended yet.
NoNames == [names |-> <<>>, name |-> <<>>]
Ended(r) == IF r.name \in {<<>>, <<".">>} THEN r.names ELSE Append(r.names, r.name)
ReadOn(r, c) ==
  IF c = "/" THEN [names |-> Ended(r), name |-> <<>>]
  ELSE [names |-> r.names, name |-> Append(r.name, c)]
Read(path) ==
  LET read[k \in 0 .. Len(path)] == IF k = 0 THEN NoNames ELSE ReadOn(read[k - 1], path[k])
  IN  read[Len(path)]

\* The names a path leads through, from the root or from a directory.
Names(path) == Ended(Read(path))

-----------------------------------------------------------------------------
(* The file system. *)

Asked(p) == scenario.processes[p]
Resolved(directory, path) ==
  IF IsAbsolutePath(path) THEN Names(path) ELSE Names(directory) \o Names(path)
Place(p, path) == Resolved(cwd[p], path)

DirectoryExists(p, path) == Place(p, path) \in dirs
FileOrDirectoryExists(p, path) == Place(p, path) \in dirs \cup DOMAIN files

\* New entries can be made in a directory that is there and not read-only.
Grows(place) == place # <<>> /\ Front(place) \in dirs \ scenario.read_only
CanMkdir(p, path) == Grows(Place(p, path)) /\ ~FileOrDirectoryExists(p, path)
CanOpen(p, path) ==
  /\ Place(p, path) \notin dirs
  /\ Place(p, path) \in DOMAIN files \/ Grows(Place(p, path))

\* fopen(path, "w") empties a file that is there.
With(place, content) ==
  files' = [f \in DOMAIN files \cup {place} |-> IF f = place THEN content ELSE files[f]]
Opened(p, path) == With(Place(p, path), <<>>)

-----------------------------------------------------------------------------
(* The flag --gtest_output. *)

IsReport(p) == Asked(p).format \in {"xml", "json"}
\* The name of the program, without the directory it was started from.
GetCurrentExecutableName(p) == RemoveDirectoryName(Normalize(Asked(p).argv0))

\* The file or directory that the flag names; only a directory needs a name
\* for the file.
OutputName(p) ==
  LET name == Normalize(Asked(p).path)
  IN  IF ~Asked(p).colon
      THEN MakeFileName(original_working_dir[p], <<"test_detail">>, 0, Asked(p).format)
      ELSE IF IsAbsolutePath(name) THEN name
      ELSE ConcatPaths(original_working_dir[p], name)

UniqueFileName(p) ==
  MakeFileName(OutputName(p), GetCurrentExecutableName(p), number[p], Asked(p).format)

-----------------------------------------------------------------------------
(* A process. *)

OutputInit ==
  /\ scenario \in Scenarios
  /\ at = [p \in Processes |-> "main"]
  /\ cwd = [p \in Processes |-> scenario.processes[p].cwd]
  /\ original_working_dir = [p \in Processes |-> <<>>]
  /\ output_file = [p \in Processes |-> <<>>]
  /\ number = [p \in Processes |-> 0]
  /\ output_dir = [p \in Processes |-> <<>>]
  /\ to_create = [p \in Processes |-> <<>>]
  /\ written = [p \in Processes |-> 0]
  /\ iteration = [p \in Processes |-> 1]
  /\ dirs = scenario.dirs
  /\ files = [f \in scenario.files |-> <<Old>>]
  /\ seen_done = [p \in Processes |-> {}]

Goes(p, from, to) == at[p] = from /\ at' = [at EXCEPT ![p] = to]

\* main() begins; AddTestInfo has been called before if some test is not
\* parameterized.
EnterMain(p, has_tests) ==
  /\ Goes(p, "main", "init")
  /\ original_working_dir' =
       [original_working_dir EXCEPT ![p] = IF has_tests THEN cwd[p] ELSE <<>>]
  /\ seen_done' = [seen_done EXCEPT ![p] = {q \in Processes : at[q] = "done"}]
  /\ UNCHANGED <<scenario, cwd, stepVars, fsVars>>

\* The program changes its directory, in main() or in a test.
ChangeDirectory(p) ==
  /\ at[p] \in {"init", "run", "running"} /\ cwd[p] # Asked(p).chdir
  /\ at[p] = "running" => ~Asked(p).list_tests
  /\ cwd' = [cwd EXCEPT ![p] = Asked(p).chdir]
  /\ UNCHANGED <<scenario, at, original_working_dir, stepVars, fsVars, seen_done>>

\* ConfigureXmlOutput, as far as the file, behind RegisterParameterizedTests.
ConfigureXmlOutput(p, has_parameterized_tests) ==
  /\ LET captures == original_working_dir[p] = <<>> /\ has_parameterized_tests
     IN  original_working_dir' = [original_working_dir EXCEPT ![p] = IF captures THEN cwd[p] ELSE @]
  /\ \/ ~IsReport(p) /\ Goes(p, "init", "run")
     \/ IsReport(p) /\ Goes(p, "init", "named")
  /\ UNCHANGED <<scenario, cwd, stepVars, fsVars, seen_done>>

\* GetAbsolutePathToOutputFile, for the listener and for the list of tests.
Named(p, from, to) ==
  \/ /\ ~IsDirectory(OutputName(p)) /\ OutputName(p) # <<>>
     /\ Goes(p, from, to)
     /\ output_file' = [output_file EXCEPT ![p] = OutputName(p)]
     /\ UNCHANGED number
  \/ /\ IsDirectory(OutputName(p)) /\ ~FileOrDirectoryExists(p, UniqueFileName(p))
     /\ Goes(p, from, to)
     /\ output_file' = [output_file EXCEPT ![p] = UniqueFileName(p)]
     /\ number' = [number EXCEPT ![p] = 0]
  \/ /\ IsDirectory(OutputName(p)) /\ FileOrDirectoryExists(p, UniqueFileName(p))
     /\ at[p] = from /\ number[p] < Len(Numerals)
     /\ number' = [number EXCEPT ![p] = @ + 1]
     /\ UNCHANGED <<at, output_file>>

\* The constructor of the listener refuses a name that is empty.
NameReport(p) ==
  /\ \/ Named(p, "named", "run")
     \/ /\ OutputName(p) = <<>> /\ Goes(p, "named", "rejected")
        /\ UNCHANGED <<output_file, number>>
  /\ UNCHANGED <<scenario, placeVars, output_dir, to_create, written, iteration, fsVars, seen_done>>

\* The file is written to without a look at whether it could be opened.
ScopedPrematureExitFile(p) ==
  LET path == Asked(p).premature_exit_file
  IN  /\ \/ path = <<>> /\ Goes(p, "run", "running") /\ UNCHANGED files
         \/ /\ path # <<>> /\ CanOpen(p, path)
            /\ Goes(p, "run", "running") /\ With(Place(p, path), <<p>>)
         \/ /\ path # <<>> /\ ~CanOpen(p, path)
            /\ Goes(p, "run", "died") /\ UNCHANGED files
      /\ UNCHANGED <<scenario, placeVars, stepVars, dirs, seen_done>>

\* A test ends the process.
Crash(p) ==
  /\ Asked(p).may_crash /\ Goes(p, "running", "crashed")
  /\ UNCHANGED <<scenario, placeVars, stepVars, fsVars, seen_done>>

\* The tests have run, or are to be listed, and there is nothing to write.
NoReport(p) ==
  /\ ~IsReport(p) /\ Goes(p, "running", "leaving")
  /\ UNCHANGED <<scenario, placeVars, stepVars, fsVars, seen_done>>

\* ListTestsMatchingFilter asks for the name anew.
NameList(p) ==
  /\ IsReport(p) /\ Asked(p).list_tests
  /\ Named(p, "running", "open")
  /\ UNCHANGED <<scenario, placeVars, output_dir, to_create, written, iteration, fsVars, seen_done>>

OnTestIterationEnd(p) ==
  /\ IsReport(p) /\ ~Asked(p).list_tests /\ Goes(p, "running", "open")
  /\ UNCHANGED <<scenario, placeVars, stepVars, fsVars, seen_done>>

-----------------------------------------------------------------------------
(* OpenFileForWriting *)

OpenFileForWriting(p) ==
  /\ Goes(p, "open", "stat")
  /\ output_dir' = [output_dir EXCEPT ![p] = RemoveFileName(output_file[p])]
  /\ to_create' = [to_create EXCEPT ![p] = <<>>]
  /\ UNCHANGED <<scenario, placeVars, output_file, number, written, iteration, fsVars, seen_done>>

\* The way down: what is not there is to be created behind its parent.
CreateDirectoriesRecursively(p) ==
  /\ \/ /\ Goes(p, "stat", "mkdir") /\ DirectoryExists(p, output_dir[p])
        /\ UNCHANGED <<output_dir, to_create>>
     \/ /\ at[p] = "stat" /\ UNCHANGED at
        /\ ~DirectoryExists(p, output_dir[p])
        /\ to_create' = [to_create EXCEPT ![p] = <<output_dir[p]>> \o @]
        /\ output_dir' = [output_dir EXCEPT ![p] = RemoveFileName(RemoveTrailingPathSeparator(@))]
  /\ UNCHANGED <<scenario, placeVars, output_file, number, written, iteration, fsVars, seen_done>>

\* Bug: an error of mkdir is a failure, whatever its reason.
FolderMustBeNew(p) ==
  /\ to_create[p] # <<>>
  /\ \/ /\ CanMkdir(p, Head(to_create[p]))
        /\ at[p] = "mkdir" /\ UNCHANGED at
        /\ dirs' = dirs \cup {Place(p, Head(to_create[p]))}
        /\ to_create' = [to_create EXCEPT ![p] = Tail(@)]
     \/ /\ ~CanMkdir(p, Head(to_create[p]))
        /\ Goes(p, "mkdir", "died") /\ UNCHANGED <<dirs, to_create>>
  /\ UNCHANGED <<scenario, placeVars, output_file, number, output_dir, written, iteration,
                 files, seen_done>>

\* On the way back: mkdir, and after an error another look.
CreateFolder(p) ==
  /\ to_create[p] # <<>>
  /\ \/ /\ CanMkdir(p, Head(to_create[p]))
        /\ at[p] = "mkdir" /\ UNCHANGED at
        /\ dirs' = dirs \cup {Place(p, Head(to_create[p]))}
        /\ to_create' = [to_create EXCEPT ![p] = Tail(@)]
     \/ /\ ~CanMkdir(p, Head(to_create[p]))
        /\ Goes(p, "mkdir", "error") /\ UNCHANGED <<dirs, to_create>>
  /\ UNCHANGED <<scenario, placeVars, output_file, number, output_dir, written, iteration,
                 files, seen_done>>

AfterError(p) ==
  /\ \/ /\ Goes(p, "error", "mkdir") /\ DirectoryExists(p, Head(to_create[p]))
        /\ to_create' = [to_create EXCEPT ![p] = Tail(@)]
     \/ /\ Goes(p, "error", "died") /\ ~DirectoryExists(p, Head(to_create[p]))
        /\ UNCHANGED to_create
  /\ UNCHANGED <<scenario, placeVars, output_file, number, output_dir, written, iteration,
                 fsVars, seen_done>>

FOpen(p) ==
  /\ to_create[p] = <<>>
  /\ \/ CanOpen(p, output_file[p]) /\ Goes(p, "mkdir", "write") /\ Opened(p, output_file[p])
     \/ ~CanOpen(p, output_file[p]) /\ Goes(p, "mkdir", "died") /\ UNCHANGED files
  /\ written' = [written EXCEPT ![p] = 0]
  /\ UNCHANGED <<scenario, placeVars, output_file, number, output_dir, to_create, iteration,
                 dirs, seen_done>>

\* A report is written in two pieces, each behind what this process has
\* written, whatever others do to the file.  What is written to a file that was
\* removed is lost.
Pieces == 2
Written(content, p, k) ==
  [n \in 1 .. (IF k > Len(content) THEN k ELSE Len(content)) |->
     IF n = k THEN p ELSE IF n \in DOMAIN content THEN content[n] ELSE Nobody]

WriteReport(p) ==
  /\ at[p] = "write" /\ written[p] < Pieces /\ UNCHANGED at
  /\ written' = [written EXCEPT ![p] = @ + 1]
  /\ LET place == Place(p, output_file[p])
     IN  IF place \in DOMAIN files
         THEN With(place, Written(files[place], p, written[p] + 1)) ELSE UNCHANGED files
  /\ UNCHANGED <<scenario, placeVars, output_file, number, output_dir, to_create, iteration,
                 dirs, seen_done>>

\* The next iteration writes its report over this one; a list is written once.
FClose(p) ==
  /\ written[p] = Pieces
  /\ LET again == iteration[p] < Asked(p).repeat /\ ~Asked(p).list_tests
     IN  /\ Goes(p, "write", IF again THEN "running" ELSE "leaving")
         /\ iteration' = [iteration EXCEPT ![p] = IF again THEN @ + 1 ELSE @]
  /\ UNCHANGED <<scenario, placeVars, output_file, number, output_dir, to_create, written,
                 fsVars, seen_done>>

\* UnitTest::Run() returns.
LeaveRun(p) ==
  /\ Goes(p, "leaving", "done")
  /\ LET path == Asked(p).premature_exit_file
         gone == IF path # <<>> /\ Grows(Place(p, path)) THEN {Place(p, path)} ELSE {}
     IN  files' = [f \in DOMAIN files \ gone |-> files[f]]
  /\ UNCHANGED <<scenario, placeVars, stepVars, dirs, seen_done>>

OutputNext(p, has_tests, has_parameterized_tests) ==
  \/ EnterMain(p, has_tests) \/ ChangeDirectory(p)
  \/ ConfigureXmlOutput(p, has_parameterized_tests) \/ NameReport(p)
  \/ ScopedPrematureExitFile(p) \/ Crash(p) \/ NoReport(p) \/ NameList(p) \/ OnTestIterationEnd(p)
  \/ OpenFileForWriting(p) \/ CreateDirectoriesRecursively(p) \/ CreateFolder(p) \/ AfterError(p)
  \/ FOpen(p) \/ WriteReport(p) \/ FClose(p) \/ LeaveRun(p)

\* Processes of any programs.
OutputSpec ==
  /\ OutputInit
  /\ [][\E p \in Processes, has_tests, has_parameterized_tests \in BOOLEAN :
          OutputNext(p, has_tests, has_parameterized_tests)]_outputVars

-----------------------------------------------------------------------------
(* What there can be. *)

Text   == Seq(Words)
Places == Seq(Text)
Requests ==
  [format : Words \ {"/"}, colon : BOOLEAN, path : Text, argv0 : Text, cwd : Text, chdir : Text,
   list_tests : BOOLEAN, premature_exit_file : Text, may_crash : BOOLEAN, repeat : Nat]

\* A file system is a tree with files for leaves.
IsTree(ds, fs) ==
  /\ ds \subseteq Places /\ fs \subseteq Places
  /\ <<>> \in ds /\ ds \intersect fs = {}
  /\ \A place \in (ds \cup fs) \ {<<>>} : Front(place) \in ds

\* A process is in a directory of an absolute path; the flag names a file or a
\* directory, and not "." as a file.
ASSUME OutputAssumption ==
  /\ {"/", ".", "_", "test_detail"} \subseteq Words
  /\ Numerals \in Seq(Words \ {"/"})
  /\ \A s \in Scenarios :
       /\ IsTree(s.dirs, s.files)
       /\ DOMAIN s.processes = Processes
       /\ \A p \in Processes :
            LET asked == s.processes[p]
            IN  /\ asked \in Requests
                /\ IsAbsolutePath(asked.cwd) /\ IsAbsolutePath(asked.chdir)
                /\ RemoveDirectoryName(asked.path) # <<".">>

-----------------------------------------------------------------------------
(* Properties. *)

\* Where the report belongs: the flag says so, seen from the directory in which
\* the program was started.
Wanted(p) == Names(Asked(p).cwd) \o Names(Asked(p).path)
WantsDirectory(p) == Asked(p).colon /\ (Asked(p).path = <<>> \/ Last(Asked(p).path) = "/")
FromRoot(p) == Asked(p).path # <<>> /\ Head(Asked(p).path) = "/"
WantedPlace(p) ==
  IF ~Asked(p).colon THEN Append(Names(Asked(p).cwd), <<"test_detail", ".", Asked(p).format>>)
  ELSE IF FromRoot(p) THEN Names(Asked(p).path)
  ELSE Wanted(p)

\* The report that a process has written or is about to write.
Report(p) == Place(p, output_file[p])
HasReport(p) == IsReport(p) /\ at[p] = "done"

\* A program without tests takes its report along when its directory changes;
\* a file of a premature exit is opened and removed wherever the program is.
Around(p, path) == {Resolved(directory, path) : directory \in {Asked(p).cwd, Asked(p).chdir}}
TakesReport(p, place) == output_file[p] # <<>> /\ place \in Around(p, output_file[p])
TakesForExit(p, place) ==
  Asked(p).premature_exit_file # <<>> /\ place \in Around(p, Asked(p).premature_exit_file)

\* Only a name in a directory is looked for among those that are free, and that
\* from the directory the program is in.
TakesBlindly(p, place) ==
  TakesReport(p, place) /\ (WantsDirectory(p) => ~IsAbsolutePath(output_file[p]))

\* A file in the way of a directory, a directory in place of the file, or one
\* in which nothing can be created.
Blocked(place) ==
  \/ place \in dirs
  \/ \E k \in 1 .. Len(place) - 1 :
       \/ SubSeq(place, 1, k) \in DOMAIN files
       \/ \E p \in Processes : TakesForExit(p, SubSeq(place, 1, k))
  \/ /\ place \notin DOMAIN files
     /\ \E k \in 0 .. Len(place) - 1 :
          /\ SubSeq(place, 1, k) \in scenario.read_only
          /\ SubSeq(place, 1, k + 1) \notin dirs

\* Directories are created for the report only.
IsMissing(place) == place = <<>> \/ Front(place) \notin scenario.dirs

\* A program gives up only if its file cannot be written; creating the same
\* directories at the same time is no reason.
GivesUpForAReason ==
  \A p \in Processes :
    LET path == Asked(p).premature_exit_file
    IN  at[p] = "died" =>
          \/ IsReport(p) /\ output_file[p] # <<>> /\ Blocked(Report(p))
          \/ path # <<>> /\ (IsMissing(Place(p, path)) \/ Blocked(Place(p, path)))

\* The report is where the flag says, unless the program has no tests, which
\* leaves it without an original directory.
ReportIsThere ==
  \A p \in Processes :
    HasReport(p) /\ original_working_dir[p] = Asked(p).cwd =>
      IF WantsDirectory(p) THEN Front(Report(p)) = WantedPlace(p)
      ELSE Report(p) = WantedPlace(p)

\* It is whole, unless another process that was under way at the same time, or
\* did not look for a free name, has taken the same, or it is where a program
\* has its file of a premature exit.
ReportIsWhole ==
  \A p \in Processes :
    HasReport(p) =>
      \/ Report(p) \in DOMAIN files /\ files[Report(p)] = [k \in 1 .. Pieces |-> p]
      \/ \E q \in Processes \ {p} :
           \/ TakesBlindly(q, Report(p))
           \/ TakesReport(q, Report(p)) /\ p \notin seen_done[q]
      \/ \E q \in Processes : TakesForExit(q, Report(p))

\* What was in a directory before is left alone.
OldFilesStay ==
  \A f \in scenario.files :
    \/ f \in DOMAIN files /\ files[f] = <<Old>>
    \/ \E p \in Processes : TakesBlindly(p, f) \/ TakesForExit(p, f)

\* The file that tells of a premature exit is there exactly then.
PrematureExitTells ==
  \A p \in Processes :
    LET path  == Asked(p).premature_exit_file
        place == Names(path)
        own   == \A q \in Processes \ {p} : ~TakesReport(q, place) /\ ~TakesForExit(q, place)
    IN  /\ path # <<>> /\ IsAbsolutePath(path) /\ own
        /\ ~IsMissing(place) /\ Grows(place) /\ place \notin dirs
        => /\ at[p] = "crashed" => place \in DOMAIN files
           /\ at[p] = "died" => place \in DOMAIN files
           /\ at[p] = "done" => place \notin DOMAIN files

(***************************************************************************)
(* Runs of test programs that share a file system give up only for a       *)
(* reason, leave their reports where they belong and those of others       *)
(* alone, and tell of an exit in the middle of the tests.                  *)
(***************************************************************************)
OutputTells ==
  GivesUpForAReason /\ ReportIsThere /\ ReportIsWhole /\ OldFilesStay /\ PrematureExitTells
=============================================================================
