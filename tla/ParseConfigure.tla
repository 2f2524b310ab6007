---------------------------- MODULE ParseConfigure ----------------------------
(***************************************************************************)
(* parseConfigure.cpp: the configuration of a directory of JSON files, and  *)
(* main.cpp, which passes it on.                                            *)
(*                                                                         *)
(* Init picks the directory.  A file is a sequence of entries, each with    *)
(* the tree below its key; a tree is a function whose domain are the keys   *)
(* that are present (once).  What is malformed in a value of a tree is a    *)
(* value outside the domain of its meaning.  A step is the listing of the   *)
(* directory, the opening of a file, one entry, or one step of main().      *)
(*                                                                         *)
(* Nothing catches an exception: a thrown one ends the program.             *)
(***************************************************************************)
EXTENDS ParseTimeDuration, FiniteSets, SequencesExt

CONSTANTS Names,         \* the names a configuration may mention
          DurationTexts, \* the texts of durations that occur
          IntValue,      \* IntValue[t]: the number a text is, for those that are one
          Directories    \* the directories of files the program may find

ASSUME TextsAssumption == DurationTexts \subseteq Text
ASSUME IntAssumption == \A t \in DOMAIN IntValue : IntValue[t] \in Int

\* What stands below the keys of a service, where it is present.
IsTree(tree) ==
  /\ "name" \in DOMAIN tree => tree.name \in Names
  /\ "argv" \in DOMAIN tree => tree.argv \in Seq(STRING)
  /\ "startAfter" \in DOMAIN tree => tree.startAfter \in Seq(Names)

IsEntry(entry) == entry.key = "processService" => IsTree(entry.tree)

ASSUME DirectoriesAssumption ==
  \A d \in Directories :
    /\ d \in Seq(ToSet(d))
    /\ \A f \in DOMAIN d : /\ d[f].entries \in Seq(ToSet(d[f].entries))
                          /\ \A i \in DOMAIN d[f].entries : IsEntry(d[f].entries[i])

VARIABLES
  directory,  \* directory[f]: file f; files are numbered in the order of their paths
  partial,    \* history: the listing of the directory failed half way
  files,      \* the files parseConfigureFromDirectory() has still to read
  entries,    \* the entries of the current file that are still to be read
  services,   \* Configure::servicesMap
  logger,     \* Configure::Logger
  pc,         \* what is being done
  outcome     \* "running", "terminated" by an exception, or what main() returned

conf == <<services, logger>>
vars == <<directory, partial, files, entries, conf, pc, outcome>>

-----------------------------------------------------------------------------
(* The values of a tree.                                                   *)

TypeOf     == [basic |-> "BASIC", notify |-> "NOTIFY"]
ActionOf   == [restart |-> "RESTART", reboot_container |-> "REBOOT_CONTAINER"]
OutOf      == [init_process |-> "INIT_PROCESS", stand |-> "STAND"]
DurationOf == [t \in {t \in DurationTexts : IsDuration(t)} |-> ParseDuration(t)]

Seconds(n) == Wrap(n * UnitNs["s"])
LOG_ERR    == 3

\* get<T>() throws unless this holds; get_optional<T>() is empty unless it holds.
Has(tree, key, meaning) == key \in DOMAIN tree /\ tree[key] \in DOMAIN meaning

Get(tree, key, meaning) == meaning[tree[key]]

\* An optional value that is absent, or malformed, is replaced in silence.
GetOptionalWithDefaultValue(tree, key, meaning, default) ==
  IF Has(tree, key, meaning) THEN Get(tree, key, meaning) ELSE default

\* BUG: a threshold of 0 is let through.
HeartbeatWithoutThreshold(tree) ==
  /\ Has(tree, "interval", DurationOf)
  /\ Has(tree, "failureThreshold", IntValue)
  /\ Get(tree, "failureThreshold", IntValue) >= 0

\* getHeartbeat() does not throw.
IsHeartbeat(tree) ==
  /\ Has(tree, "interval", DurationOf)
  /\ Has(tree, "failureThreshold", IntValue)
  /\ Get(tree, "failureThreshold", IntValue) > 0

Heartbeat(tree) == [interval         |-> Get(tree, "interval", DurationOf),
                    failureThreshold |-> Get(tree, "failureThreshold", IntValue)]

\* BUG: a malformed type is not replaced.
TypeAsWritten(tree) ==
  IF "type" \in DOMAIN tree /\ tree.type \notin DOMAIN TypeOf THEN tree.type
  ELSE GetOptionalWithDefaultValue(tree, "type", TypeOf, "BASIC")

Type(tree) == GetOptionalWithDefaultValue(tree, "type", TypeOf, "BASIC")

\* addProcessService() does not throw.  (addEnvironment() wants a name and a
\* value in each of its elements; the environment it makes is dropped.)
IsService(tree) ==
  /\ {"name", "argv"} \subseteq DOMAIN tree
  /\ tree.argv # << >>
  /\ ~(Has(tree, "startTimeout", DurationOf) /\ Type(tree) = "BASIC")
  /\ "addEnv" \in DOMAIN tree =>
       \A i \in DOMAIN tree.addEnv : {"name", "value"} \subseteq tree.addEnv[i]
  /\ "heartbeat" \in DOMAIN tree => IsHeartbeat(tree.heartbeat)

\* The service it makes.  Members that may be empty are sequences of at most one
\* value; startTimeout is also empty where the code leaves it uninitialized.
Service(tree) ==
  [argv         |-> tree.argv,
   type         |-> Type(tree),
   action       |-> GetOptionalWithDefaultValue(tree, "failAction", ActionOf, "RESTART"),
   standardErr  |-> GetOptionalWithDefaultValue(tree, "standErr", OutOf, "INIT_PROCESS"),
   standardOut  |-> GetOptionalWithDefaultValue(tree, "standOut", OutOf, "INIT_PROCESS"),
   startTimeout |-> IF Has(tree, "startTimeout", DurationOf) THEN << >> ELSE <<Seconds(100)>>,
   stopTimeout  |-> GetOptionalWithDefaultValue(tree, "stopTimeout", DurationOf, Seconds(200)),
   heartbeat    |-> IF "heartbeat" \in DOMAIN tree THEN <<Heartbeat(tree.heartbeat)>> ELSE << >>,
   watchdogTimeout |-> << >>,
   env          |-> << >>,
   startAfter   |-> IF "startAfter" \in DOMAIN tree THEN tree.startAfter ELSE << >>]

-----------------------------------------------------------------------------
Init ==
  /\ directory \in Directories
  /\ partial = FALSE
  /\ files = << >> /\ entries = << >>
  /\ services = [n \in {} |-> {}]
  /\ logger = [loggerForward |-> FALSE, loggerLevel |-> << >>]
  /\ pc = "list" /\ outcome = "running"

Throw ==
  /\ outcome' = "terminated"
  /\ UNCHANGED pc

JsonFiles == {f \in DOMAIN directory : directory[f].json}

\* std::sort()
SortedFiles == {l \in SetToSeqs(JsonFiles) : \A i, j \in DOMAIN l : i < j => l[i] < l[j]}

\* BUG: the files are read in the order of the directory.
ListUnsorted ==
  /\ pc = "list" /\ outcome = "running"
  /\ files' \in SetToSeqs(JsonFiles)
  /\ pc' = "files"
  /\ UNCHANGED <<directory, partial, entries, conf, outcome>>

\* getJsonFilesFromDirectory(): the regular .json files, sorted.  An error on the
\* way is caught, and what has been found until then is returned, unsorted.
ListFiles ==
  /\ pc = "list" /\ outcome = "running"
  /\ \/ files' \in SortedFiles /\ UNCHANGED partial
     \/ \E found \in SUBSET JsonFiles : files' \in SetToSeqs(found) /\ partial' = TRUE
  /\ pc' = "files"
  /\ UNCHANGED <<directory, entries, conf, outcome>>

\* readConfigurationImpl() of the next file: it may be impossible to open it or
\* to parse it.  Every file starts without a logger to forward to.
ReadFile ==
  /\ pc = "files" /\ files # << >> /\ outcome = "running"
  /\ files' = Tail(files)
  /\ IF directory[Head(files)].readable
     THEN /\ entries' = directory[Head(files)].entries
          /\ logger' = [logger EXCEPT !.loggerForward = FALSE]
          /\ pc' = "entries" /\ UNCHANGED outcome
     ELSE Throw /\ UNCHANGED <<entries, logger>>
  /\ UNCHANGED <<directory, partial, services>>

\* The next entry of the file.
NextEntry ==
  /\ pc = "entries" /\ entries # << >> /\ outcome = "running"
  /\ entries' = Tail(entries)
  /\ UNCHANGED <<directory, partial, files>>

Add(name, svc) == [n \in DOMAIN services \cup {name} |-> IF n = name THEN svc ELSE services[n]]

\* addProcessService(): servicesMap.insert() changes nothing for a name it has.
AddProcessService ==
  /\ NextEntry /\ Head(entries).key = "processService"
  /\ LET tree == Head(entries).tree
     IN  \/ /\ IsService(tree) /\ tree.name \notin DOMAIN services
            /\ services' = Add(tree.name, Service(tree)) /\ UNCHANGED <<pc, outcome>>
         \/ /\ IsService(tree) /\ tree.name \in DOMAIN services
            /\ UNCHANGED <<services, pc, outcome>>
         \/ ~IsService(tree) /\ Throw /\ UNCHANGED services
  /\ UNCHANGED logger

\* setLogger(); the device is left out.
SetLogger ==
  /\ NextEntry /\ Head(entries).key = "logger"
  /\ logger' = [loggerForward |-> TRUE,
                loggerLevel |-> <<GetOptionalWithDefaultValue(Head(entries).tree, "logLevel",
                                                              IntValue, LOG_ERR)>>]
  /\ UNCHANGED <<services, pc, outcome>>

SkipEntry ==
  /\ NextEntry /\ Head(entries).key \notin {"processService", "logger"}
  /\ UNCHANGED <<conf, pc, outcome>>

FileDone ==
  /\ pc = "entries" /\ entries = << >> /\ outcome = "running"
  /\ pc' = "files"
  /\ UNCHANGED <<directory, partial, files, entries, conf, outcome>>

\* parseConfigureFromDirectory() returns.
FilesDone ==
  /\ pc = "files" /\ files = << >> /\ outcome = "running"
  /\ pc' = "parsed"
  /\ UNCHANGED <<directory, partial, files, entries, conf, outcome>>

ParseConfigureFromDirectory ==
  \/ ListFiles \/ ReadFile \/ AddProcessService \/ SetLogger \/ SkipEntry
  \/ FileDone \/ FilesDone
=============================================================================
