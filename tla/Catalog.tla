------------------------------- MODULE Catalog -------------------------------
(***************************************************************************)
(* Spec files, the ids the scheduler gives them, and the rows those share. *)
(*                                                                         *)
(* A run of a folder, which may be any of the project, has one test for    *)
(* each spec file in it.  The test is known by an id that keeps the        *)
(* letters and digits of the path, except for tests/e2e at its start; the  *)
(* portal, the table and the archive know a test by that id alone.         *)
(*                                                                         *)
(* A path is the one from the project's root, without the suffix: whether  *)
(* it starts with tests/e2e, be it in the middle of a name, and the        *)
(* characters after that, of which two that differ in case and two that    *)
(* are neither letter nor digit stand for the rest.                        *)
(***************************************************************************)
EXTENDS Naturals, FiniteSets, SequencesExt

CONSTANTS
  MaxLength,  \* bound: characters of a path after its start
  MaxFiles,   \* bound: spec files in the folder
  NoFile      \* no row

Alphanumeric == {"a", "A"}
Characters   == Alphanumeric \cup {"-", "/"}

\* What the strip takes from a path, in either case.
Starts == {"", "tests/e2e", "Tests/E2E"}

\* A name between two slashes is not empty; the one before the suffix may be.
Rests == {s \in BoundedSeq(Characters, MaxLength) :
            \A i \in 1 .. Len(s) - 1 : s[i] # "/" \/ s[i + 1] # "/"}

Paths == {p \in [start : Starts, rest : Rests] :
            p.start # "" \/ p.rest = <<>> \/ p.rest[1] # "/"}

SpecFiles == [path : Paths, suffix : {".spec.ts", ".spec.js"}]

ASSUME CatalogAssumption ==
  /\ MaxLength \in Nat /\ MaxFiles \in Nat
  /\ NoFile \notin SpecFiles

VARIABLES
  folder,    \* the spec files in the folder the run names
  jobs,      \* the jobs of the run: a test id and a spec file
  reported,  \* jobs whose first attempt has reached the store
  rows       \* rows[id]: the spec file in the row of the first attempt of test id

catalogVars == <<folder, jobs, reported, rows>>

-----------------------------------------------------------------------------
\* The k-th position of a set of positions, in the order of the characters.
Place(S, k) == CHOOSE i \in S : Cardinality({j \in S : j <= i}) = k

Letters(rest) == {i \in DOMAIN rest : rest[i] \in Alphanumeric}

\* Where a run of other characters begins that lies between two letters.
Hyphens(rest) ==
  {i \in DOMAIN rest \ Letters(rest) :
     i - 1 \in Letters(rest) /\ \E j \in Letters(rest) : j > i}

Kept(rest) == Letters(rest) \cup Hyphens(rest)

Upper(c) == IF c \in Alphanumeric THEN "A" ELSE "-"

\* The characters at some positions, as they stand in an id.
Spell(rest, S) == [k \in 1 .. Cardinality(S) |-> Upper(rest[Place(S, k)])]

\* Mutant: what is no letter or digit is dropped, so words run together.
DroppedTestId(file) == Spell(file.path.rest, Letters(file.path.rest))

\* testIdFromSpec, without the prefix TC that all ids have: the start is stripped,
\* each run of other characters becomes one hyphen, and none is left at an end,
\* so it makes no difference that a slash after the start is stripped with it.
TestId(file) == Spell(file.path.rest, Kept(file.path.rest))

TestIds == {TestId(f) : f \in SpecFiles}

Job(file) == [testId |-> TestId(file), specFile |-> file]

-----------------------------------------------------------------------------
CatalogInit ==
  /\ folder = {}
  /\ jobs = {}
  /\ reported = {}
  /\ rows = [id \in TestIds |-> NoFile]

\* External: someone writes a test.
AddFile(file) ==
  /\ jobs = {}
  /\ Cardinality(folder) < MaxFiles
  /\ folder' = folder \cup {file}
  /\ UNCHANGED <<jobs, reported, rows>>

\* POST /runs for a folder: an empty one is refused.
PostRun ==
  /\ jobs = {} /\ folder # {}
  /\ jobs' = {Job(f) : f \in folder}
  /\ UNCHANGED <<folder, reported, rows>>

\* A push about the first attempt of a job, as the store saves it: each names the
\* spec file, and the row is found by the test id.
Report(job) ==
  /\ rows' = [rows EXCEPT ![job.testId] = job.specFile]
  /\ reported' = reported \cup {job}
  /\ UNCHANGED <<folder, jobs>>

CatalogNext ==
  \/ \E file \in SpecFiles : AddFile(file)
  \/ PostRun
  \/ \E job \in jobs : Report(job)

CatalogSpec == CatalogInit /\ [][CatalogNext]_catalogVars

-----------------------------------------------------------------------------
(* Properties.                                                             *)

\* What the strip takes: nothing, the words tests and e2e, or, where a letter or
\* digit follows, the first of them and a part of the second.
Cut(path) ==
  IF path.start = "" THEN "nothing"
  ELSE IF 1 \in Letters(path.rest) THEN "part of a word" ELSE "words"

\* The words of a path, whatever lies between them and in whichever case: those of
\* its start, and each letter and digit of the rest with whether it begins a word
\* there.
Words(path) ==
  LET letters == Letters(path.rest)
  IN  [start |-> Cut(path),
       rest  |-> [k \in 1 .. Cardinality(letters) |->
                    LET i == Place(letters, k)
                    IN  [letter |-> Upper(path.rest[i]),
                         first  |-> i = 1 \/ i - 1 \notin letters]]]

\* A test keeps the row it reported to if no other test of the run has a path of
\* the same words, and the strip takes the same from all of them, as it does in
\* tests/e2e, the default folder, and in every folder that is not above that: ids
\* do not collide by accident, where words end included.
DistinctWordsKeepRows ==
  \A job \in reported :
    (\A other \in jobs \ {job} :
       /\ Cut(other.specFile.path) = Cut(job.specFile.path)
       /\ Words(other.specFile.path) # Words(job.specFile.path))
      => rows[job.testId] = job.specFile
=============================================================================
