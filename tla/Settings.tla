------------------------------- MODULE Settings -------------------------------
(***************************************************************************)
(* What the robot keeps from one life of its process to the next: the      *)
(* core's configuration (PID settings and selected algorithm) and a file   *)
(* of arguments per algorithm. The main thread reads them, and fills what  *)
(* is missing, in its initialisation; the Wi-Fi thread, which is started   *)
(* before, serves the app's requests that read and write them. Every save  *)
(* opens its file anew, which empties it, and then writes it, for the      *)
(* operating system to bring it to the card some time. The power may go at *)
(* any time.                                                               *)
(*                                                                         *)
(* A request with wrong parameters raises before it touches a file and is  *)
(* left out. What A1 is sent arrives (A1Jobs has what else may happen).    *)
(***************************************************************************)
EXTENDS Naturals, Sequences

CONSTANTS
  Algorithms, \* AlgorithmManager.ALGORITHMS, a sequence of names; the first is the default
  Values,     \* values of the PID settings, and of an algorithm's arguments
  Default,    \* of these, the one of the code
  Accepted,   \* of these, the ones that A1 can parse as PID settings
  Saved,      \* what the files may hold before the first life
  MaxRequests, \* bound: the app's requests
  MaxEarly,    \* bound: of these, how many may come before the core is initialised
  A1Faults    \* may the initialisation fail for A1?

Names == {Algorithms[i] : i \in 1 .. Len(Algorithms)}

ASSUME SettingsAssumption ==
  /\ Algorithms \in Seq(STRING) /\ Algorithms # <<>>
  /\ Default \in Accepted /\ Accepted \subseteq Values /\ "none" \notin Values
  /\ "none" \notin Names /\ "config" \notin Names
  /\ A1Faults \in BOOLEAN /\ MaxRequests \in Nat /\ MaxEarly \in Nat

VARIABLES
  files,     \* what the configuration file and each algorithm's file of arguments hold
  card,      \* what of it has come to the card, to be there after a power cut
  at,        \* where each thread is
  job,       \* what a thread is at: [kind, pid, name, value, rest]
  save,      \* what a thread saves, and where it goes from there: [file, content, next]
  algorithm, \* AlgorithmManager._algorithm: [name, value]
  working,   \* ExecutionState.is_working
  a1Pid,     \* the PID settings of A1
  tornBefore, \* the files that the last life of the process left torn (history)
  early,     \* did a request arrive in this life before the core was initialised? (history)
  refused,   \* did the last set-algorithm fail after saving? (history)
  may,       \* what the files may hold by the requests so far: [pid, algorithm, arguments]
  requests   \* how many there were (history)

threads == <<at, job, save>>
robot == <<algorithm, working, a1Pid>>
history == <<tornBefore, early, refused, may, requests>>
vars == <<files, card, threads, robot, history>>

Threads == {"main", "wifi"}
Files == {"config"} \cup Names
DefaultName == Algorithms[1]

\* What a file may hold. Arguments of another version lack one, or have one of another type.
Absent == [is |-> "absent"]
Torn == [is |-> "torn"]
Outdated == [is |-> "outdated"]
Empty == [pid |-> "none", algorithm |-> "none"]
Configs == [pid : Values \cup {"none"}, algorithm : Names \cup {"none"}]
Arguments(value) == [value |-> value]
AllArguments == {Arguments(value) : value \in Values}

config == files["config"]
TornFiles == {f \in Files : files[f] = Torn}

NoJob == [kind |-> "none", pid |-> "none", name |-> "none", value |-> "none", rest |-> <<>>]
NoSave == [file |-> "config", content |-> Empty, next |-> "none"]
NoAlgorithm == [name |-> "none", value |-> "none"]

\* What is missing may be set to the default without a request.
OrDefault(content, missing, default) ==
  IF content \in missing THEN {content, default} ELSE {content}

ASSUME SavedAssumption ==
  \A f \in Saved :
    /\ f["config"] \in {Absent} \cup Configs /\ DOMAIN f = Files
    /\ \A a \in Names : f[a] \in {Absent, Outdated} \cup AllArguments

Promised(contents) ==
  LET c == IF contents["config"] \in {Absent, Torn} THEN Empty ELSE contents["config"]
  IN [pid |-> OrDefault(c.pid, {"none"}, Default),
      algorithm |-> OrDefault(c.algorithm, {"none"}, DefaultName),
      arguments |-> [a \in Names |-> OrDefault(contents[a], {Absent, Outdated}, Arguments(Default))]]

Init ==
  /\ files \in Saved /\ card = files
  /\ at = [p \in Threads |-> "off"]
  /\ job = [p \in Threads |-> NoJob]
  /\ save = [p \in Threads |-> NoSave]
  /\ algorithm = NoAlgorithm /\ working = FALSE /\ a1Pid = "none"
  /\ tornBefore = {} /\ early = FALSE /\ refused = FALSE /\ requests = 0
  /\ may = Promised(files)

-----------------------------------------------------------------------------
(* Saving, for either thread.                                               *)

Goto(p, label) == at' = [at EXCEPT ![p] = label]

Save(p, file, content, next) ==
  /\ Goto(p, "save")
  /\ save' = [save EXCEPT ![p] = [file |-> file, content |-> content, next |-> next]]

Truncate(p) ==
  /\ at[p] = "save"
  /\ files' = [files EXCEPT ![save[p].file] = Torn]
  /\ Goto(p, "fill")
  /\ UNCHANGED <<job, save, robot, history>>

\* Slip: the file is never written.
FillNothing(p) ==
  /\ at[p] = "fill"
  /\ Goto(p, save[p].next)
  /\ save' = [save EXCEPT ![p] = NoSave]
  /\ UNCHANGED <<files, job, robot, history>>

\* When the other thread has written since, the longer text's end may stay behind the shorter.
Fill(p) ==
  /\ at[p] = "fill"
  /\ \E content \in {save[p].content, Torn} :
       /\ content = Torn => files[save[p].file] \notin {Torn, save[p].content}
       /\ files' = [files EXCEPT ![save[p].file] = content]
  /\ Goto(p, save[p].next)
  /\ save' = [save EXCEPT ![p] = NoSave]
  /\ UNCHANGED <<job, robot, history>>

-----------------------------------------------------------------------------
(* What the threads do with the files. A file that does not parse raises:   *)
(* the initialisation fails, or the app gets an error.                      *)

Requesting == at["wifi"] \notin {"off", "ready"}

Fail(p) ==
  /\ Goto(p, IF p = "main" THEN "dead" ELSE "ready")
  /\ job' = [job EXCEPT ![p] = NoJob]
  /\ refused' = (refused \/ (p = "wifi" /\ job[p].kind = "setAlgorithm"))
  /\ UNCHANGED <<files, save, robot, tornBefore, early, may, requests>>

\* Slip: a file that does not parse is read again, until it does.
ConfigTornAgain(p) ==
  /\ at[p] \in {"getPid", "setPid", "getSelected", "setSelected"} /\ config = Torn
  /\ UNCHANGED vars

ConfigTorn(p) ==
  /\ at[p] \in {"getPid", "setPid", "getSelected", "setSelected"} /\ config = Torn
  /\ Fail(p)

Readable(p, label) == at[p] = label /\ config # Torn

\* get_pid_settings: at the initialisation, and for the app.
GetPid(p) ==
  /\ Readable(p, "getPid")
  /\ LET pid == IF config.pid = "none" THEN Default ELSE config.pid
         next == IF p = "main" THEN "sendPid" ELSE "reply"
     IN /\ job' = [job EXCEPT ![p].pid = pid]
        /\ IF config.pid = "none"
           THEN Save(p, "config", [config EXCEPT !.pid = pid], next)
           ELSE Goto(p, next) /\ UNCHANGED save
  /\ UNCHANGED <<files, robot, history>>

\* Slip: the configuration is written without what else it held.
SetPidOnly(p) ==
  /\ Readable(p, "setPid")
  /\ Save(p, "config", [Empty EXCEPT !.pid = job[p].pid], "sendPid")
  /\ UNCHANGED <<files, job, robot, history>>

SetPid(p) ==
  /\ Readable(p, "setPid")
  /\ Save(p, "config", [config EXCEPT !.pid = job[p].pid], "sendPid")
  /\ UNCHANGED <<files, job, robot, history>>

\* Slip: A1 is not told.
SendPidUnsaid(p) ==
  /\ at[p] = "sendPid"
  /\ Goto(p, IF p = "main" THEN "getSelected" ELSE "reply")
  /\ UNCHANGED <<files, job, save, robot, history>>

\* A1 refuses what it cannot parse, and keeps what it has. The initialisation fails of that,
\* the app's request does not: its job is not waited for.
SendPid(p) ==
  LET pid == job[p].pid IN
  /\ at[p] = "sendPid"
  /\ IF p = "main" /\ pid \notin Accepted THEN Fail(p)
     ELSE /\ a1Pid' = IF pid \in Accepted THEN pid ELSE a1Pid
          /\ Goto(p, IF p = "main" THEN "getSelected" ELSE "reply")
          /\ UNCHANGED <<files, job, save, algorithm, working, history>>

GetSelected(p) ==
  /\ Readable(p, "getSelected")
  /\ IF config.algorithm = "none"
     THEN job' = [job EXCEPT ![p].name = DefaultName] /\ Goto(p, "setSelected")
     ELSE job' = [job EXCEPT ![p].name = config.algorithm] /\ Goto(p, "setAlgorithm")
  /\ UNCHANGED <<files, save, robot, history>>

\* Slip: the arguments are written over the configuration.
SaveArgumentsOver(p) ==
  /\ at[p] = "saveArguments"
  /\ Save(p, "config", Arguments(job[p].value), "setSelected")
  /\ UNCHANGED <<files, job, robot, history>>

SaveArguments(p) ==
  /\ at[p] = "saveArguments"
  /\ Save(p, job[p].name, Arguments(job[p].value), "setSelected")
  /\ UNCHANGED <<files, job, robot, history>>

SetSelected(p) ==
  /\ Readable(p, "setSelected")
  /\ Save(p, "config", [config EXCEPT !.algorithm = job[p].name], "setAlgorithm")
  /\ UNCHANGED <<files, job, robot, history>>

\* set_algorithm: not while one is working.
SetAlgorithm(p) ==
  /\ at[p] = "setAlgorithm"
  /\ IF working THEN Fail(p)
     ELSE Goto(p, "load") /\ UNCHANGED <<files, job, save, robot, history>>

\* Slip: arguments that are missing are not replaced by the default.
LoadWithoutDefault(p) ==
  LET name == job[p].name IN
  /\ at[p] = "load"
  /\ IF files[name] \notin AllArguments THEN Fail(p)
     ELSE /\ job' = [job EXCEPT ![p].value = files[name].value]
          /\ Goto(p, "loaded")
          /\ UNCHANGED <<files, save, robot, history>>

\* _load_arguments: what is missing or of a wrong type is recreated, what does not parse is not.
Load(p) ==
  LET name == job[p].name
      saved == files[name] \in AllArguments
      value == IF saved THEN files[name].value ELSE Default
  IN
  /\ at[p] = "load"
  /\ IF files[name] = Torn THEN Fail(p)
     ELSE /\ job' = [job EXCEPT ![p].value = value]
          /\ IF saved THEN Goto(p, "loaded") /\ UNCHANGED save
             ELSE Save(p, name, Arguments(value), "loaded")
          /\ UNCHANGED <<files, robot, history>>

\* Slip: the saved arguments are not applied.
AssignDefault(p) ==
  /\ at[p] = "loaded" /\ job[p].kind # "list"
  /\ algorithm' = [name |-> job[p].name, value |-> Default]
  /\ Goto(p, IF p = "main" THEN "dateTime" ELSE "reply")
  /\ UNCHANGED <<files, job, save, working, a1Pid, history>>

Assign(p) ==
  /\ at[p] = "loaded" /\ job[p].kind # "list"
  /\ algorithm' = [name |-> job[p].name, value |-> job[p].value]
  /\ Goto(p, IF p = "main" THEN "dateTime" ELSE "reply")
  /\ UNCHANGED <<files, job, save, working, a1Pid, history>>

\* get-algorithms loads every algorithm's arguments, and fails without a selected one.
ListNext(p) ==
  /\ at[p] = "loaded" /\ job[p].kind = "list"
  /\ IF job[p].rest # <<>>
     THEN /\ job' = [job EXCEPT ![p].name = Head(job[p].rest), ![p].rest = Tail(@)]
          /\ Goto(p, "load")
          /\ UNCHANGED <<files, save, robot, history>>
     ELSE IF algorithm = NoAlgorithm THEN Fail(p)
     ELSE Goto(p, "reply") /\ UNCHANGED <<files, job, save, robot, history>>

Work(p) ==
  \/ Truncate(p) \/ Fill(p) \/ ConfigTorn(p)
  \/ GetPid(p) \/ SetPid(p) \/ SendPid(p)
  \/ GetSelected(p) \/ SaveArguments(p) \/ SetSelected(p)
  \/ SetAlgorithm(p) \/ Load(p) \/ Assign(p) \/ ListNext(p)

-----------------------------------------------------------------------------
(* The process.                                                             *)

Boot ==
  /\ at["main"] = "off"
  /\ IF config = Absent THEN Save("main", "config", Empty, "connect")
     ELSE Goto("main", "connect") /\ UNCHANGED save
  /\ job' = [job EXCEPT !["main"] = [NoJob EXCEPT !.kind = "init"]]
  /\ may' = IF early THEN Promised(files) ELSE may
  /\ early' = FALSE /\ refused' = FALSE
  /\ UNCHANGED <<files, card, robot, tornBefore, requests>>

\* A1 is connected and told, and the Wi-Fi service started.
StartWifi ==
  /\ at["main"] = "connect"
  /\ at' = [main |-> "getPid", wifi |-> "ready"]
  /\ UNCHANGED <<files, job, save, robot, history>>

SetDateTime ==
  /\ at["main"] = "dateTime"
  /\ Goto("main", "loop")
  /\ job' = [job EXCEPT !["main"] = NoJob]
  /\ UNCHANGED <<files, save, robot, history>>

InitStops(label) ==
  /\ Goto("main", label)
  /\ job' = [job EXCEPT !["main"] = NoJob]
  /\ UNCHANGED <<files, card, save, robot, history>>

\* The first jobs for A1, set_pid or the date and time time out.
InitFails ==
  /\ A1Faults /\ at["main"] \in {"connect", "sendPid", "dateTime"}
  /\ InitStops("failed")

\* The beep, the last before the Wi-Fi service, has no timeout.
BeepHangs == A1Faults /\ at["main"] = "connect" /\ InitStops("hung")

Over(contents) ==
  /\ at' = [p \in Threads |-> "off"]
  /\ job' = [p \in Threads |-> NoJob]
  /\ save' = [p \in Threads |-> NoSave]
  /\ algorithm' = NoAlgorithm /\ working' = FALSE /\ a1Pid' = "none"
  /\ files' = contents /\ card' = contents
  /\ tornBefore' = {f \in Files : contents[f] = Torn}
  /\ UNCHANGED <<early, refused, requests>>

\* The process ends with the main thread, whatever the Wi-Fi thread is doing, but not before
\* the algorithm's thread. It starts with the system, which comes up from the card.
Exit == at["main"] \in {"dead", "failed"} /\ ~working /\ Over(files) /\ UNCHANGED may

\* The system goes down in order, for a shutdown or a reboot: it ends the process wherever it
\* is, and writes back what was saved.
Halt == at["main"] \notin {"off", "dead", "failed"} /\ Over(files) /\ UNCHANGED may

\* The system writes back what was saved when it likes: nobody asks it to (fsync).
Sync(f) ==
  /\ card[f] # files[f]
  /\ card' = [card EXCEPT ![f] = files[f]]
  /\ UNCHANGED <<files, threads, robot, history>>

\* The power goes. Of a file that was not written back yet, what the card has counts from now.
PowerCut ==
  /\ at["main"] # "off"
  /\ Over(card)
  /\ LET old == Promised(card) IN
     may' = [pid |-> IF card["config"] = config THEN may.pid ELSE old.pid,
             algorithm |-> IF card["config"] = config THEN may.algorithm ELSE old.algorithm,
             arguments |-> [a \in Names |->
               IF card[a] = files[a] THEN may.arguments[a] ELSE old.arguments[a]]]

-----------------------------------------------------------------------------
(* The app's requests, in the Wi-Fi thread.                                 *)

Arrive ==
  /\ at["wifi"] = "ready" /\ requests < MaxRequests
  /\ at["main"] # "loop" => requests < MaxEarly
  /\ requests' = requests + 1
  /\ early' = (early \/ at["main"] # "loop")

Request(label) ==
  /\ Arrive /\ Goto("wifi", label)
  /\ UNCHANGED <<files, save, robot, tornBefore, refused>>

AskPid ==
  /\ Request("getPid")
  /\ job' = [job EXCEPT !["wifi"] = [NoJob EXCEPT !.kind = "getPid"]]
  /\ UNCHANGED may

ChangePid ==
  \E pid \in Values :
    /\ Request("setPid")
    /\ job' = [job EXCEPT !["wifi"] = [NoJob EXCEPT !.kind = "setPid", !.pid = pid]]
    /\ may' = [may EXCEPT !.pid = @ \cup {pid}]

ChangeAlgorithm ==
  \E name \in Names, value \in Values :
    /\ Request("saveArguments")
    /\ job' = [job EXCEPT !["wifi"] =
                 [NoJob EXCEPT !.kind = "setAlgorithm", !.name = name, !.value = value]]
    /\ may' = [may EXCEPT !.algorithm = @ \cup {name}, !.arguments[name] = @ \cup {Arguments(value)}]

AskAlgorithms ==
  /\ Request("load")
  /\ job' = [job EXCEPT !["wifi"] =
               [NoJob EXCEPT !.kind = "list", !.name = DefaultName, !.rest = Tail(Algorithms)]]
  /\ UNCHANGED may

\* From the answer on, the files hold what was asked for and nothing else.
Reply ==
  /\ at["wifi"] = "reply"
  /\ Goto("wifi", "ready")
  /\ LET asked == job["wifi"] IN
     /\ may' = CASE asked.kind = "setPid" -> [may EXCEPT !.pid = {asked.pid}]
                 [] asked.kind = "setAlgorithm" ->
                      [may EXCEPT !.algorithm = {asked.name},
                                  !.arguments[asked.name] = {Arguments(asked.value)}]
                 [] OTHER -> may
     /\ refused' = (refused /\ asked.kind # "setAlgorithm")
  /\ job' = [job EXCEPT !["wifi"] = NoJob]
  /\ UNCHANGED <<files, save, robot, tornBefore, early, requests>>

\* start and stop of a cleaning.
StartOrStop ==
  /\ Arrive
  /\ working \/ algorithm # NoAlgorithm
  /\ working' = ~working
  /\ UNCHANGED <<files, threads, algorithm, a1Pid, tornBefore, refused, may>>

App ==
  /\ AskPid \/ ChangePid \/ ChangeAlgorithm \/ AskAlgorithms \/ StartOrStop
  /\ UNCHANGED card

Main == (Work("main") \/ StartWifi \/ SetDateTime) /\ UNCHANGED card
Wifi == (Work("wifi") \/ Reply) /\ UNCHANGED card

Ends == Exit \/ Halt \/ PowerCut

Next ==
  \/ Boot \/ Main \/ Wifi \/ App
  \/ InitFails \/ BeepHangs \/ Ends
  \/ \E f \in Files : Sync(f)

Spec == Init /\ [][Next]_vars

\* The threads go on; nobody has to switch the robot on, or to ask for anything.
Fairness == WF_vars(Main) /\ WF_vars(Wifi) /\ WF_vars(Exit)

FairSpec == Spec /\ Fairness

-----------------------------------------------------------------------------
Labels == {"off", "ready", "connect", "getPid", "setPid", "sendPid", "getSelected",
           "saveArguments", "setSelected", "setAlgorithm", "load", "loaded", "save", "fill",
           "dateTime", "loop", "reply", "dead", "failed", "hung"}

ContentsOK(contents) ==
  /\ DOMAIN contents = Files
  /\ contents["config"] \in {Absent, Torn} \cup Configs
  /\ \A a \in Names : contents[a] \in {Absent, Torn, Outdated} \cup AllArguments

FilesTypeOK == ContentsOK(files)
CardTypeOK == ContentsOK(card)

RobotTypeOK ==
  /\ algorithm \in {NoAlgorithm} \cup [name : Names, value : Values]
  /\ working \in BOOLEAN /\ a1Pid \in Values \cup {"none"}
  /\ tornBefore \subseteq Files /\ early \in BOOLEAN /\ refused \in BOOLEAN

Jobs == [kind : {"none", "init", "getPid", "setPid", "setAlgorithm", "list"},
         pid : Values \cup {"none"}, name : Names \cup {"none"}, value : Values \cup {"none"},
         rest : Seq(Names)]

Saves == {s \in [file : Files, content : Configs \cup AllArguments, next : Labels \cup {"none"}] :
            s.content \in IF s.file = "config" THEN Configs ELSE AllArguments}

ThreadsTypeOK ==
  /\ at \in [Threads -> Labels] /\ job \in [Threads -> Jobs] /\ save \in [Threads -> Saves]
  /\ \A p \in Threads :
       at[p] \in {"save", "fill"} => save[p].next \in Labels \ {"save", "fill"}

LifeTypeOK == FilesTypeOK /\ RobotTypeOK /\ ThreadsTypeOK
TypeOK == LifeTypeOK /\ CardTypeOK

\* A file does not parse only while it is being saved, or since a life that ended before it
\* was saved, and on the card, or when two threads have saved it at once.
TornOnlyByCrash ==
  \A f \in TornFiles :
    f \in tornBefore \/ early \/ \E p \in Threads : at[p] = "fill" /\ save[p].file = f

\* What the app was told is saved stays saved however the process ends, and over a power cut
\* once the system has written the file back, until the app saves another value; of what it
\* had asked for at the end, and of what was not written back, the file has the new value, an
\* older one or nothing that parses. This does not hold for a request served while the core
\* initialises (core.py:110), which may undo it.
SettingsKept ==
  ~early =>
    /\ config \notin {Absent, Torn} =>
         config.pid \in may.pid /\ config.algorithm \in may.algorithm
    /\ \A a \in Names : files[a] \in may.arguments[a] \cup {Torn}

AtRest == at["main"] = "loop" /\ at["wifi"] = "ready" /\ ~early

\* A1 regulates with the settings that are saved, but for those that it refuses: they are
\* saved all the same, and the app is told that they are in use (pid.py:45-50).
A1InStep == AtRest => a1Pid = config.pid \/ config.pid \notin Accepted

\* The algorithm that is selected, with the arguments that are saved for it, is the one that
\* is saved, unless set-algorithm had saved it already when it was refused.
AppliedIsSaved ==
  AtRest /\ ~refused =>
    /\ algorithm.name = config.algorithm
    /\ files[algorithm.name] = Arguments(algorithm.value)

\* The configuration parses, and holds what A1 does not.
PidRefused == config \notin {Absent, Torn} /\ config.pid \in Values \ Accepted

\* The initialisation does not fail for what is missing in the files, or outdated: only a file
\* that was torn before, a request served too early, or saved settings that A1 refuses, at
\* this and every later start, are fatal.
DiesOnlyOfTorn == at["main"] = "dead" => tornBefore # {} \/ early \/ PidRefused

\* The initialisation comes to an end, whatever it finds in the files: in the loop, or with an
\* error, unless the power goes first, or the answer to the beep, for which it waits for ever.
ComesUp == at["main"] = "connect" ~> at["main"] \in {"loop", "failed", "dead", "hung", "off"}
=============================================================================
