--------------------------- MODULE SettingsKeptProofs ---------------------------
(***************************************************************************)
(* That what the app was told is saved stays saved, however the process    *)
(* ends, and over power cuts once it was written back, for any algorithms, *)
(* values and numbers of requests.                                         *)
(*                                                                         *)
(* The files hold what may be there, and every save in progress writes     *)
(* what may be there: what the thread read and kept, what the request in   *)
(* progress asks for, or a default in the place of what is missing. When a *)
(* request is answered its own values are on the disk (SettingsProofs has  *)
(* most of it), so that the earlier ones may be forgotten.                 *)
(*                                                                         *)
(* And that the initialisation fails for no file but a torn one, and one   *)
(* with PID settings that A1 refuses.                                      *)
(***************************************************************************)
EXTENDS SettingsProofs

\* May a file hold this?
Allowed(file, content) ==
  IF file = "config" THEN content.pid \in may.pid /\ content.algorithm \in may.algorithm
  ELSE content \in may.arguments[file]

\* Where something may be missing the default may be as well.
MayInv ==
  /\ may \in [pid : SUBSET (Values \cup {"none"}), algorithm : SUBSET (Names \cup {"none"}),
              arguments : [Names -> SUBSET (AllArguments \cup {Absent, Outdated, Torn})]]
  /\ "none" \in may.pid => Default \in may.pid
  /\ "none" \in may.algorithm => DefaultName \in may.algorithm
  /\ \A a \in Names : may.arguments[a] \cap {Absent, Outdated} # {} =>
                        Arguments(Default) \in may.arguments[a]

FilesKept ==
  /\ config = Absent => Allowed("config", Empty)
  /\ config \in Configs => Allowed("config", config)
  /\ \A a \in Names : files[a] = Torn \/ Allowed(a, files[a])

SavesKept ==
  \A p \in Threads : at[p] \in {"save", "fill"} => Allowed(save[p].file, save[p].content)

\* What the main thread selects by itself, and what the request in progress asks for.
JobsKept ==
  /\ Label("main") = "setSelected" => job["main"].name \in may.algorithm
  /\ job["wifi"].kind = "setPid" =>
       /\ job["wifi"].pid \in Values \cap may.pid
       /\ Label("wifi") = "reply" => Disk("config").pid = job["wifi"].pid
  /\ job["wifi"].kind = "setAlgorithm" =>
       /\ job["wifi"].name \in Names \cap may.algorithm /\ job["wifi"].value \in Values
       /\ Allowed(job["wifi"].name, Arguments(job["wifi"].value))
       /\ Label("wifi") = "reply" => Selected("wifi") /\ Stored("wifi")

Kept == MayInv /\ FilesKept /\ SavesKept /\ JobsKept
KeptInv == early \/ Kept

-----------------------------------------------------------------------------
(* What the files may hold, step by step.                                   *)

\* A thread goes to a label, at once or when it has saved what the file may hold.
LandsKept(p, label) ==
  \/ Goto(p, label) /\ UNCHANGED save
  \/ \E file, content : Allowed(file, content) /\ Save(p, file, content, label)

LEMMA LandsKeptLands ==
  ASSUME NEW p, NEW label, LandsKept(p, label)
  PROVE  Lands(p, label)
BY DEF LandsKept, Lands

LEMMA LandsKeptSaves ==
  ASSUME SafeInv, SavesKept, NEW p \in Threads, NEW label, label \notin {"save", "fill"},
         LandsKept(p, label), UNCHANGED may
  PROVE  SavesKept'
<1>0. /\ at \in [Threads -> Labels] /\ save \in [Threads -> Saves]
      /\ \A q \in Threads : q = p \/ q = Other(p)
  BY DEF SafeInv, LifeTypeOK, ThreadsTypeOK, Threads, Other
<1>1. at'[Other(p)] = at[Other(p)] /\ save'[Other(p)] = save[Other(p)]
  BY <1>0, Two DEF LandsKept, Save, Goto
<1>2. ASSUME at'[p] \in {"save", "fill"} PROVE Allowed(save'[p].file, save'[p].content)
  <2>1. PICK file, content : Allowed(file, content) /\ Save(p, file, content, label)
    BY <1>0, <1>2 DEF LandsKept, Goto
  <2>2. save'[p].file = file /\ save'[p].content = content
    BY <1>0, <2>1 DEF Save
  <2> QED
    BY <2>1, <2>2
<1>3. ASSUME NEW q \in Threads, at'[q] \in {"save", "fill"}
      PROVE  Allowed(save'[q].file, save'[q].content)
  <2>1. CASE q = p
    BY <1>2, <1>3, <2>1
  <2>2. CASE q = Other(p)
    BY <1>1, <1>3, <2>2 DEF SavesKept
  <2> QED
    BY <1>0, <2>1, <2>2
<1> QED
  BY <1>3 DEF SavesKept, Allowed

\* A step that leaves the files and what they may hold alone.
LEMMA StillKept ==
  ASSUME Kept, UNCHANGED <<files, may>>, SavesKept', JobsKept'
  PROVE  Kept'
<1>1. MayInv' /\ FilesKept'
  BY DEF Kept, MayInv, FilesKept, Allowed, config
<1> QED
  BY <1>1 DEF Kept

\* What has to hold of the job after a step of the main thread while the other is idle, and
\* after a step of the Wi-Fi thread while the main thread is in its loop.
LEMMA MainKept ==
  ASSUME SafeInv, Kept, NEW label, label \notin {"save", "fill"}, Idle("main"),
         LandsKept("main", label), UNCHANGED <<files, may>>, KindInv',
         Label("wifi")' \in {"off", "ready"},
         label = "setSelected" => job'["main"].name \in may.algorithm
  PROVE  Kept'
<1>1. Label("main")' = label
  BY LandsKeptLands, LandsLabel, Two DEF SafeInv
<1>2. job'["wifi"].kind \notin {"setPid", "setAlgorithm"}
  <2>1. Label("wifi")' \in KindLabels(job'["wifi"].kind)
    BY Two DEF KindInv
  <2> QED
    BY <2>1 DEF KindLabels
<1>3. SavesKept'
  BY LandsKeptSaves, Two DEF Kept
<1>4. JobsKept'
  BY <1>1, <1>2 DEF JobsKept
<1> QED
  BY <1>3, <1>4, StillKept

LEMMA WifiKept ==
  ASSUME SafeInv, Kept, NEW label, label \notin {"save", "fill"}, Idle("wifi"),
         LandsKept("wifi", label), UNCHANGED <<files, may>>, Label("main") = "loop",
         job'["wifi"].kind = "setPid" =>
           /\ job["wifi"].kind = "setPid" /\ job'["wifi"].pid = job["wifi"].pid
           /\ label = "reply" => Disk("config")'.pid = job'["wifi"].pid,
         job'["wifi"].kind = "setAlgorithm" =>
           /\ job["wifi"].kind = "setAlgorithm" /\ job'["wifi"].name = job["wifi"].name
           /\ job'["wifi"].value = job["wifi"].value
           /\ label = "reply" => Selected("wifi")' /\ Stored("wifi")'
  PROVE  Kept'
<1>1. Label("wifi")' = label /\ Label("main")' = "loop"
  BY LandsKeptLands, LandsLabel, Two DEF SafeInv, Other
<1>2. SavesKept'
  BY LandsKeptSaves, Two DEF Kept
<1>3. ASSUME job'["wifi"].kind = "setPid"
      PROVE  /\ job'["wifi"].pid \in Values \cap may'.pid
             /\ label = "reply" => Disk("config")'.pid = job'["wifi"].pid
  BY <1>3 DEF Kept, JobsKept
<1>4. ASSUME job'["wifi"].kind = "setAlgorithm"
      PROVE  /\ job'["wifi"].name \in Names \cap may'.algorithm /\ job'["wifi"].value \in Values
             /\ Allowed(job["wifi"].name, Arguments(job["wifi"].value))'
             /\ label = "reply" => Selected("wifi")' /\ Stored("wifi")'
  BY <1>4 DEF Kept, JobsKept, Allowed
<1>5. JobsKept'
  BY <1>1, <1>3, <1>4 DEF JobsKept
<1> QED
  BY <1>2, <1>5, StillKept

\* What the files may hold, of a configuration that was read.
LEMMA ConfigKept ==
  ASSUME Kept, config \in Configs
  PROVE  /\ config.pid \in may.pid /\ config.algorithm \in may.algorithm
         /\ config.pid = "none" => Default \in may.pid
         /\ config.algorithm = "none" => DefaultName \in may.algorithm
BY DEF Kept, MayInv, FilesKept, Allowed

-----------------------------------------------------------------------------
(* The threads' steps without an early request.                             *)

LEMMA FailKept ==
  ASSUME SafeInv, UsedInv, KindInv', Kept, ~early, NEW p \in Threads, Idle(p),
         at[p] \notin {"off", "ready", "loop", "connect"}, Fail(p)
  PROVE  Kept'
<1> DEFINE label == IF p = "main" THEN "dead" ELSE "ready"
<1>1. /\ LandsKept(p, label) /\ label \notin {"save", "fill", "reply", "setSelected"}
      /\ UNCHANGED <<files, may>>
  BY DEF Fail, LandsKept
<1>2. job'[p].kind = "none" /\ Label(Other(p))' = Label(Other(p))
  BY FailKinds DEF NoJob, UsedInv
<1>3. CASE p = "main"
  <2>1. Label("wifi")' \in {"off", "ready"}
    BY <1>2, <1>3, MainKnows DEF Other
  <2> QED
    BY <1>1, <1>3, <2>1, MainKept
<1>4. CASE p = "wifi"
  BY <1>1, <1>2, <1>4, WifiKept, WifiKnows
<1> QED
  BY <1>3, <1>4, Two

LEMMA GetPidKept ==
  ASSUME SafeInv, UsedInv, KindInv', Kept, ~early, NEW p \in Threads, GetPid(p)
  PROVE  Kept'
<1> DEFINE pid == IF config.pid = "none" THEN Default ELSE config.pid
           label == IF p = "main" THEN "sendPid" ELSE "reply"
<1>1. at[p] = "getPid" /\ config # Torn /\ Idle(p) /\ at[p] \notin {"off", "ready", "loop", "connect"}
  BY Unlike DEF GetPid, Readable
<1>2. config \in Configs
  BY <1>1, ConfigRead
<1>3. PICK c : c = [config EXCEPT !.pid = pid]
  OBVIOUS
<1>4. pid \in Values /\ c.pid = pid /\ c.algorithm = config.algorithm
  BY <1>2, <1>3, ConfigFacts, NamesFacts
<1>5. Allowed("config", c)
  BY <1>2, <1>4, ConfigKept DEF Allowed
<1>6. /\ LandsKept(p, label) /\ label \notin {"save", "fill", "setSelected"}
      /\ job' = [job EXCEPT ![p].pid = pid] /\ UNCHANGED <<files, may>>
  BY <1>3, <1>5 DEF GetPid, LandsKept, history
<1>7. job'[p].kind = job[p].kind
  BY <1>4, <1>6, JobPid DEF SafeInv
<1>8. CASE p = "main"
  <2>1. Label("wifi")' = Label("wifi") /\ Label("wifi") \in {"off", "ready"}
    BY <1>1, <1>6, <1>8, MainKnows, LandsKeptLands, LandsLabel DEF SafeInv, Other
  <2> QED
    BY <1>1, <1>6, <1>8, <2>1, MainKept
<1>9. CASE p = "wifi"
  <2>1. job["wifi"].kind = "getPid" /\ Label("main") = "loop"
    BY <1>1, <1>9, KindOf, WifiKnows DEF UsedInv
  <2> QED
    BY <1>1, <1>6, <1>7, <1>9, <2>1, WifiKept
<1> QED
  BY <1>8, <1>9, Two

LEMMA SetPidKept ==
  ASSUME SafeInv, UsedInv, KindInv', Kept, ~early, NEW p \in Threads, SetPid(p)
  PROVE  Kept'
<1>1. at[p] = "setPid" /\ config # Torn /\ Idle(p) /\ at[p] \notin {"off", "ready", "loop", "connect"}
  BY Unlike DEF SetPid, Readable
<1>2. p = "wifi" /\ job[p].kind = "setPid"
  BY <1>1, KindOf DEF UsedInv
<1>3. job["wifi"].pid \in Values \cap may.pid /\ config \in Configs
  BY <1>1, <1>2, ConfigRead DEF Kept, JobsKept
<1>4. PICK c : c = [config EXCEPT !.pid = job[p].pid]
  OBVIOUS
<1>5. c.pid = job[p].pid /\ c.algorithm = config.algorithm
  BY <1>2, <1>3, <1>4, ConfigFacts
<1>6. Allowed("config", c)
  BY <1>2, <1>3, <1>5, ConfigKept DEF Allowed
<1>7. LandsKept("wifi", "sendPid") /\ UNCHANGED <<files, job, may>>
  BY <1>2, <1>4, <1>6 DEF SetPid, LandsKept, history
<1> QED
  BY <1>1, <1>2, <1>7, WifiKept, WifiKnows

LEMMA PidSentKept ==
  ASSUME SafeInv, UsedInv, KindInv', Kept, ~early, NEW p \in Threads, PidSent(p)
  PROVE  Kept'
<1> DEFINE label == IF p = "main" THEN "getSelected" ELSE "reply"
<1>1. at[p] = "sendPid" /\ Idle(p) /\ at[p] \notin {"off", "ready", "loop", "connect"}
  BY Unlike DEF PidSent
<1>2. /\ Goto(p, label) /\ label \notin {"save", "fill", "setSelected"}
      /\ UNCHANGED <<files, job, save, may>>
  BY DEF PidSent, history
<1>3. LandsKept(p, label)
  BY <1>2 DEF LandsKept
<1>4. (\A f : Disk(f)' = Disk(f)) /\ Label(Other(p))' = Label(Other(p))
  BY <1>1, <1>2, GotoDisk
<1>5. CASE p = "main"
  BY <1>1, <1>2, <1>3, <1>4, <1>5, MainKept, MainKnows DEF Other
<1>6. CASE p = "wifi"
  <2>1. Label("main") = "loop" /\ Disk("config")'.pid = job'["wifi"].pid
    BY <1>1, <1>2, <1>4, <1>6, WifiKnows
  <2>2. job["wifi"].kind = "setPid"
    BY <1>1, <1>6, KindOf DEF UsedInv
  <2> QED
    BY <1>1, <1>2, <1>3, <1>6, <2>1, <2>2, WifiKept
<1> QED
  BY <1>5, <1>6, Two

LEMMA SendPidKept ==
  ASSUME SafeInv, UsedInv, KindInv', Kept, ~early, NEW p \in Threads, SendPid(p)
  PROVE  Kept'
<1>1. CASE PidSent(p)
  BY <1>1, PidSentKept
<1>2. CASE Fail(p)
  <2>1. Idle(p) /\ at[p] \notin {"off", "ready", "loop", "connect"}
    BY Unlike, SendPidIs
  <2> QED
    BY <1>2, <2>1, FailKept
<1> QED
  BY <1>1, <1>2, SendPidIs

LEMMA GetSelectedKept ==
  ASSUME SafeInv, UsedInv, KindInv', Kept, ~early, NEW p \in Threads, GetSelected(p)
  PROVE  Kept'
<1>1. at[p] = "getSelected" /\ Idle(p) /\ at[p] \notin {"off", "ready", "loop", "connect"}
  BY Unlike DEF GetSelected, Readable
<1>2. p = "main"
  BY <1>1, KindOf DEF UsedInv
<1>3. config \in Configs /\ Label("wifi") \in {"off", "ready"}
  BY <1>1, <1>2, MainKnows DEF Configured
<1>4. PICK name \in Names, label \in {"setSelected", "setAlgorithm"} :
        /\ job' = [job EXCEPT ![p].name = name] /\ Goto(p, label)
        /\ label = "setSelected" => name = DefaultName /\ config.algorithm = "none"
  BY <1>3, ConfigFacts, NamesFacts DEF GetSelected
<1>5. UNCHANGED <<files, save, may>>
  BY DEF GetSelected, history
<1>6. job'[p].name = name
  BY <1>4, JobName DEF SafeInv
<1>7. label = "setSelected" => name \in may.algorithm
  BY <1>3, <1>4, ConfigKept
<1>8. LandsKept("main", label)
  BY <1>2, <1>4, <1>5 DEF LandsKept
<1>9. Label("wifi")' = Label("wifi")
  BY <1>1, <1>2, <1>4, <1>5, GotoDisk DEF Other
<1> QED
  BY <1>1, <1>2, <1>3, <1>5, <1>6, <1>7, <1>8, <1>9, MainKept

LEMMA SaveArgumentsKept ==
  ASSUME SafeInv, UsedInv, KindInv', Kept, ~early, NEW p \in Threads, SaveArguments(p)
  PROVE  Kept'
<1>1. at[p] = "saveArguments" /\ Idle(p) /\ at[p] \notin {"off", "ready", "loop", "connect"}
  BY Unlike DEF SaveArguments
<1>2. p = "wifi" /\ job[p].kind = "setAlgorithm"
  BY <1>1, KindOf DEF UsedInv
<1>3. Allowed(job["wifi"].name, Arguments(job["wifi"].value))
  BY <1>2 DEF Kept, JobsKept
<1>4. LandsKept("wifi", "setSelected") /\ UNCHANGED <<files, job, may>>
  BY <1>2, <1>3 DEF SaveArguments, LandsKept, history
<1> QED
  BY <1>1, <1>2, <1>4, WifiKept, WifiKnows

LEMMA SetSelectedKept ==
  ASSUME SafeInv, UsedInv, KindInv', Kept, ~early, NEW p \in Threads, SetSelected(p)
  PROVE  Kept'
<1>1. at[p] = "setSelected" /\ config # Torn /\ Idle(p)
      /\ at[p] \notin {"off", "ready", "loop", "connect"} /\ Label(p) = "setSelected"
  BY Unlike DEF SetSelected, Readable
<1>2. (p = "wifi" /\ job[p].kind = "setAlgorithm") \/ p = "main"
  BY <1>1, KindOf DEF UsedInv
<1>3. job[p].name \in Names /\ job[p].name \in may.algorithm /\ config \in Configs
  BY <1>1, <1>2, ConfigRead DEF Kept, JobsKept, SafeInv, JobInv, NameLabel
<1>4. PICK c : c = [config EXCEPT !.algorithm = job[p].name]
  OBVIOUS
<1>5. c.algorithm = job[p].name /\ c.pid = config.pid
  BY <1>3, <1>4, ConfigFacts
<1>6. Allowed("config", c)
  BY <1>3, <1>5, ConfigKept DEF Allowed
<1>7. /\ Save(p, "config", c, "setAlgorithm") /\ LandsKept(p, "setAlgorithm")
      /\ UNCHANGED <<files, job, may>>
  BY <1>4, <1>6 DEF SetSelected, LandsKept, history
<1>8. CASE p = "main"
  <2>1. Label("wifi")' = Label("wifi")
    BY <1>1, <1>7, <1>8, SaveDisk DEF Other
  <2> QED
    BY <1>1, <1>7, <1>8, <2>1, MainKept, MainKnows
<1>9. CASE p = "wifi"
  BY <1>1, <1>2, <1>7, <1>9, WifiKept, WifiKnows
<1> QED
  BY <1>8, <1>9, Two

LEMMA SetAlgorithmKept ==
  ASSUME SafeInv, UsedInv, KindInv', Kept, ~early, NEW p \in Threads, SetAlgorithm(p)
  PROVE  Kept'
<1>1. at[p] = "setAlgorithm" /\ Idle(p) /\ at[p] \notin {"off", "ready", "loop", "connect"}
  BY Unlike DEF SetAlgorithm
<1>2. CASE Fail(p)
  BY <1>1, <1>2, FailKept
<1>3. CASE Goto(p, "load") /\ UNCHANGED <<files, job, save, robot, history>>
  <2>1. LandsKept(p, "load") /\ UNCHANGED <<files, job, save, may>>
    BY <1>3 DEF LandsKept, history
  <2>2. CASE p = "main"
    <3>1. Label("wifi")' = Label("wifi")
      BY <1>1, <1>3, <2>1, <2>2, GotoDisk DEF Other
    <3> QED
      BY <1>1, <2>1, <2>2, <3>1, MainKept, MainKnows
  <2>3. CASE p = "wifi"
    <3>1. job["wifi"].kind = "setAlgorithm"
      BY <1>1, <2>3, KindOf DEF UsedInv
    <3> QED
      BY <1>1, <2>1, <2>3, <3>1, WifiKept, WifiKnows
  <2> QED
    BY <2>2, <2>3, Two
<1> QED
  BY <1>2, <1>3 DEF SetAlgorithm

LEMMA LoadKept ==
  ASSUME SafeInv, UsedInv, KindInv', Kept, ~early, NEW p \in Threads, Load(p)
  PROVE  Kept'
<1>1. at[p] = "load" /\ Idle(p) /\ at[p] \notin {"off", "ready", "loop", "connect"}
      /\ Label(p) = "load"
  BY Unlike DEF Load
<1>2. PICK name \in Names : name = job[p].name
  BY <1>1 DEF SafeInv, JobInv, NameLabel
<1> DEFINE loaded == IF files[name] \in AllArguments THEN files[name].value ELSE Default
<1>3. PICK value \in Values : value = loaded
  BY ArgumentsFacts, NamesFacts
<1>4. CASE files[name] = Torn
  BY <1>1, <1>2, <1>4, FailKept DEF Load
<1>5. CASE files[name] # Torn
  <2>1. /\ job' = [job EXCEPT ![p].value = value] /\ UNCHANGED <<files, may>>
        /\ \/ Goto(p, "loaded") /\ UNCHANGED save
           \/ files[name] \notin AllArguments /\ Save(p, name, Arguments(value), "loaded")
    BY <1>2, <1>3, <1>5 DEF Load, history
  <2>2. /\ job'[p].value = value /\ job'[p].name = name /\ job'[p].kind = job[p].kind
    BY <1>2, <2>1, JobValue DEF SafeInv
  <2>3. ASSUME files[name] \notin AllArguments PROVE Allowed(name, Arguments(value))
    <3>1. files[name] \in {Absent, Outdated} /\ files[name] \in may.arguments[name]
      BY <1>5, <2>3, NamesFacts DEF Kept, FilesKept, Allowed, SafeInv, LifeTypeOK, FilesTypeOK, ContentsOK
    <3>2. Arguments(Default) \in may.arguments[name] /\ value = Default
      BY <1>3, <2>3, <3>1 DEF Kept, MayInv
    <3> QED
      BY <3>2, NamesFacts DEF Allowed
  <2>4. LandsKept(p, "loaded")
    BY <2>1, <2>3 DEF LandsKept
  <2>5. CASE p = "main"
    <3>1. Label("wifi")' = Label("wifi")
      BY <1>1, <2>4, <2>5, LandsKeptLands, LandsLabel DEF SafeInv, Other
    <3> QED
      BY <1>1, <2>1, <2>4, <2>5, <3>1, MainKept, MainKnows
  <2>6. CASE p = "wifi"
    <3>1. job["wifi"].kind \in {"setAlgorithm", "list"} /\ Label("main") = "loop"
      BY <1>1, <2>6, KindOf, WifiKnows DEF UsedInv
    <3>2. ASSUME job["wifi"].kind = "setAlgorithm" PROVE value = job["wifi"].value
      <4>1. Stored("wifi") /\ Disk(name) = files[name]
        BY <1>1, <2>6, <3>2, WifiKnows
      <4>2. files[name] = Arguments(job["wifi"].value) /\ job["wifi"].value \in Values
        BY <1>2, <2>6, <3>2, <4>1, StoredIs DEF Kept, JobsKept
      <4>3. files[name] \in AllArguments /\ files[name].value = job["wifi"].value
        BY <4>2, ArgumentsFacts DEF Arguments
      <4> QED
        BY <1>3, <4>3
    <3> QED
      BY <1>1, <1>2, <2>1, <2>2, <2>4, <2>6, <3>1, <3>2, WifiKept
  <2> QED
    BY <2>5, <2>6, Two
<1> QED
  BY <1>4, <1>5

LEMMA AssignKept ==
  ASSUME SafeInv, UsedInv, KindInv', Kept, ~early, NEW p \in Threads, Assign(p)
  PROVE  Kept'
<1> DEFINE label == IF p = "main" THEN "dateTime" ELSE "reply"
<1>1. at[p] = "loaded" /\ Idle(p) /\ at[p] \notin {"off", "ready", "loop", "connect"}
      /\ Label(p) = "loaded" /\ job[p].kind # "list" /\ job[p].name \in Names
  BY Unlike DEF Assign, SafeInv, JobInv, NameLabel
<1>2. /\ Goto(p, label) /\ label \notin {"save", "fill", "setSelected"}
      /\ UNCHANGED <<files, job, save, may>>
  BY DEF Assign, history
<1>3. LandsKept(p, label)
  BY <1>2 DEF LandsKept
<1>4. (\A f : Disk(f)' = Disk(f)) /\ Label(Other(p))' = Label(Other(p))
  BY <1>1, <1>2, GotoDisk
<1>5. CASE p = "main"
  BY <1>1, <1>2, <1>3, <1>4, <1>5, MainKept, MainKnows DEF Other
<1>6. CASE p = "wifi"
  <2>1. job["wifi"].kind = "setAlgorithm"
    BY <1>1, <1>6, KindOf DEF UsedInv
  <2>2. /\ Label("main") = "loop" /\ Stored("wifi") /\ Disk("config") = config
        /\ config.algorithm = job["wifi"].name
    BY <1>1, <1>6, <2>1, WifiKnows
  <2>3. Stored("wifi")'
    BY <1>1, <1>2, <1>4, <1>6, <2>2, StoredStays
  <2>4. Selected("wifi")'
    BY <1>2, <1>4, <2>2 DEF Selected
  <2> QED
    BY <1>1, <1>2, <1>3, <1>6, <2>1, <2>2, <2>3, <2>4, WifiKept
<1> QED
  BY <1>5, <1>6, Two

LEMMA ListKept ==
  ASSUME SafeInv, UsedInv, KindInv', Kept, ~early, NEW p \in Threads, ListNext(p)
  PROVE  Kept'
<1>1. at[p] = "loaded" /\ Idle(p) /\ at[p] \notin {"off", "ready", "loop", "connect"}
      /\ job[p].kind = "list"
  BY Unlike DEF ListNext
<1>2. p = "wifi"
  BY <1>1, KindOf DEF UsedInv
<1>3. CASE Fail(p)
  BY <1>1, <1>3, FailKept
<1>4. ASSUME NEW label \in {"load", "reply"}, Goto(p, label), UNCHANGED <<files, save, robot, history>>,
             job'[p].kind = "list"
      PROVE  Kept'
  <2>1. LandsKept("wifi", label) /\ UNCHANGED <<files, may>>
    BY <1>2, <1>4 DEF LandsKept, history
  <2> QED
    BY <1>1, <1>2, <1>4, <2>1, WifiKept, WifiKnows
<1>5. CASE job[p].rest # <<>>
  <2>1. /\ job' = [job EXCEPT ![p].name = Head(job[p].rest), ![p].rest = Tail(@)]
        /\ Goto(p, "load") /\ UNCHANGED <<files, save, robot, history>>
    BY <1>5 DEF ListNext
  <2>2. job'[p].kind = "list"
    BY <1>1, <2>1 DEF SafeInv, LifeTypeOK, ThreadsTypeOK, Jobs
  <2> QED
    BY <1>4, <2>1, <2>2
<1>6. CASE job[p].rest = <<>> /\ ~Fail(p)
  BY <1>1, <1>4, <1>6 DEF ListNext
<1> QED
  BY <1>3, <1>5, <1>6

LEMMA JobsView ==
  ASSUME JobsKept, UNCHANGED <<job, may>>, \A q \in Threads : Label(q)' = Label(q),
         \A f : Disk(f)' = Disk(f)
  PROVE  JobsKept'
<1>1. Selected("wifi")' <=> Selected("wifi")
  BY DEF Selected
<1>2. Stored("wifi")' <=> Stored("wifi")
  <2>1. PICK n : n = job["wifi"].name
    OBVIOUS
  <2>2. job'["wifi"].name = n /\ job'["wifi"].value = job["wifi"].value /\ Disk(n)' = Disk(n)
    BY <2>1
  <2> QED
    BY <2>1, <2>2, StoredIs, Two
<1> QED
  BY <1>1, <1>2, Two DEF JobsKept, Allowed

LEMMA TruncateKept ==
  ASSUME SafeInv, Kept, NEW p \in Threads, Truncate(p)
  PROVE  Kept'
<1>1. PICK file : file = save[p].file
  OBVIOUS
<1>2. /\ at[p] = "save" /\ files' = [files EXCEPT ![file] = Torn] /\ DOMAIN files = Files
      /\ UNCHANGED <<save, job, may>> /\ at' = [at EXCEPT ![p] = "fill"]
  BY <1>1 DEF Truncate, Goto, history, SafeInv, LifeTypeOK, FilesTypeOK, ContentsOK
<1>3. \A f \in Files : files'[f] = files[f] \/ files'[f] = Torn
  BY <1>2
<1>4. FilesKept'
  <2>1. config' = config \/ config' = Torn
    BY <1>3, NamesFacts DEF config
  <2>2. \A a \in Names : files'[a] = files[a] \/ files'[a] = Torn
    BY <1>3, NamesFacts
  <2> QED
    BY <1>2, <2>1, <2>2, ContentFacts DEF Kept, FilesKept, Allowed
<1>5. SavesKept'
  <2>1. \A q \in Threads : at'[q] \in {"save", "fill"} => at[q] \in {"save", "fill"}
    BY <1>2 DEF SafeInv, LifeTypeOK, ThreadsTypeOK
  <2> QED
    BY <1>2, <2>1 DEF Kept, SavesKept, Allowed
<1>6. JobsKept'
  <2>1. (\A f : Disk(f)' = Disk(f)) /\ \A q \in Threads : Label(q)' = Label(q)
    BY TruncateKeeps DEF Threads, Other
  <2> QED
    BY <1>2, <2>1, JobsView DEF Kept
<1> QED
  BY <1>2, <1>4, <1>5, <1>6 DEF Kept, MayInv

LEMMA FillKept ==
  ASSUME SafeInv, Kept, ~early, NEW p \in Threads, Fill(p)
  PROVE  Kept'
<1>1. PICK file, content : file = save[p].file /\ content = save[p].content
  OBVIOUS
<1>2. at[p] = "fill" /\ files[file] = Torn /\ DOMAIN files = Files /\ save[p] \in Saves
  BY <1>1 DEF Fill, SafeInv, TurnsInv, LifeTypeOK, FilesTypeOK, ContentsOK, ThreadsTypeOK
<1>3. /\ files' = [files EXCEPT ![file] = content] /\ UNCHANGED <<job, may>>
      /\ at' = [at EXCEPT ![p] = save[p].next] /\ save' = [save EXCEPT ![p] = NoSave]
  BY <1>1, <1>2 DEF Fill, Goto, history
<1>4. /\ file \in Files /\ content \in Contents(file) /\ Allowed(file, content)
      /\ save[p].next \notin {"save", "fill"}
  BY <1>1, <1>2 DEF Saves, Contents, Kept, SavesKept, SafeInv, LifeTypeOK, ThreadsTypeOK
<1>5. FilesKept'
  <2>1. CASE file = "config"
    <3>1. config' = content /\ content \in Configs /\ \A a \in Names : files'[a] = files[a]
      BY <1>2, <1>3, <1>4, <2>1, NamesFacts DEF config, Contents
    <3> QED
      BY <1>3, <1>4, <2>1, <3>1, ContentFacts DEF Kept, FilesKept, Allowed
  <2>2. CASE file # "config"
    <3>1. config' = config /\ \A a \in Names : files'[a] = files[a] \/ (a = file /\ files'[a] = content)
      BY <1>2, <1>3, <1>4, <2>2, NamesFacts DEF config
    <3> QED
      BY <1>3, <1>4, <3>1 DEF Kept, FilesKept, Allowed
  <2> QED
    BY <2>1, <2>2
<1>6. SavesKept'
  <2>1. ASSUME NEW q \in Threads, at'[q] \in {"save", "fill"}
        PROVE  at[q] \in {"save", "fill"} /\ save'[q] = save[q]
    BY <1>3, <1>4, <2>1 DEF SafeInv, LifeTypeOK, ThreadsTypeOK
  <2> QED
    BY <1>3, <2>1 DEF Kept, SavesKept, Allowed
<1>7. JobsKept'
  <2>1. (\A f : Disk(f)' = Disk(f)) /\ \A q \in Threads : Label(q)' = Label(q)
    BY FillKeeps DEF Threads, Other
  <2> QED
    BY <1>3, <2>1, JobsView DEF Kept
<1> QED
  BY <1>3, <1>5, <1>6, <1>7 DEF Kept, MayInv

LEMMA WorkKept ==
  ASSUME SafeInv, UsedInv, KeptInv, NEW p \in Threads, Work(p)
  PROVE  KeptInv'
<1>1. early' = early
  BY DEF Work, Truncate, Fill, ConfigTorn, Fail, GetPid, SetPid, SendPid, GetSelected,
         SaveArguments, SetSelected, SetAlgorithm, Load, Assign, ListNext, history
<1>2. CASE early
  BY <1>1, <1>2 DEF KeptInv
<1>3. CASE ~early
  <2>1. Kept /\ KindInv'
    BY <1>3, WorkKinds DEF KeptInv, UsedInv
  <2>2. CASE ConfigTorn(p)
    <3>1. Idle(p) /\ at[p] \notin {"off", "ready", "loop", "connect"}
      BY <2>2, Unlike DEF ConfigTorn
    <3> QED
      BY <1>3, <2>1, <2>2, <3>1, FailKept DEF ConfigTorn, KeptInv
  <2> QED
    BY <1>3, <2>1, <2>2, TruncateKept, FillKept, GetPidKept, SetPidKept, SendPidKept,
       GetSelectedKept, SaveArgumentsKept, SetSelectedKept, SetAlgorithmKept, LoadKept, AssignKept,
       ListKept DEF Work, KeptInv
<1> QED
  BY <1>2, <1>3

-----------------------------------------------------------------------------
(* The process, and the requests.                                           *)

LEMMA MainStepsKept ==
  ASSUME SafeInv, UsedInv, UsedInv', KeptInv, StartWifi \/ SetDateTime \/ InitFails \/ BeepHangs
  PROVE  KeptInv'
<1>0. /\ early' = early /\ "main" \in Threads /\ "wifi" \in Threads /\ KindInv /\ KindInv'
      /\ job \in [Threads -> Jobs] /\ LifeTypeOK
  BY Two DEF StartWifi, SetDateTime, InitFails, BeepHangs, InitStops, history, UsedInv, SafeInv, LifeTypeOK, ThreadsTypeOK
<1>1. CASE early
  BY <1>0, <1>1 DEF KeptInv
<1>2. CASE ~early
  <2>0. Kept
    BY <1>2 DEF KeptInv
  <2>1. CASE StartWifi
    <3>1. /\ at' = [main |-> "getPid", wifi |-> "ready"] /\ UNCHANGED <<files, may>>
      BY <2>1 DEF StartWifi, history
    <3>2. \A q \in Threads : at'[q] \in {"getPid", "ready"}
      BY <3>1, Two
    <3>3. SavesKept' /\ Label("main")' = "getPid" /\ Label("wifi")' = "ready"
      BY <3>1, <3>2 DEF SavesKept, Label
    <3>4. job'["wifi"].kind \notin {"setPid", "setAlgorithm"}
      <4>1. "ready" \in KindLabels(job'["wifi"].kind)
        BY <1>0, <3>3 DEF KindInv
      <4> QED
        BY <4>1 DEF KindLabels
    <3>5. JobsKept'
      BY <3>3, <3>4 DEF JobsKept
    <3> QED
      BY <2>0, <3>1, <3>3, <3>5, StillKept DEF KeptInv
  <2>2. ASSUME NEW label \in {"loop", "failed", "hung"}, Goto("main", label), UNCHANGED <<files, save, may>>,
               at["main"] \in {"connect", "sendPid", "dateTime"}
        PROVE  KeptInv'
    <3>1. LandsKept("main", label) /\ Idle("main")
      BY <2>2 DEF LandsKept, Idle
    <3>2. at["wifi"] \in {"off", "ready"}
      BY <1>2, <2>2 DEF SafeInv, TurnsInv
    <3>3. Label("wifi")' \in {"off", "ready"}
      BY <1>0, <3>1, <3>2, LandsKeptLands, LandsLabel DEF Label, Other
    <3> QED
      BY <1>0, <2>0, <2>2, <3>1, <3>3, MainKept DEF KeptInv
  <2>3. CASE SetDateTime
    BY <2>2, <2>3 DEF SetDateTime, history
  <2>4. CASE InitFails
    BY <2>2, <2>4 DEF InitFails, InitStops, history
  <2>5. CASE BeepHangs
    BY <2>2, <2>5 DEF BeepHangs, InitStops, history
  <2> QED
    BY <2>1, <2>3, <2>4, <2>5
<1> QED
  BY <1>1, <1>2

\* What files hold, and the default in the place of what is missing, is a promise that holds.
LEMMA PromisedHolds ==
  ASSUME NEW contents, ContentsOK(contents), NEW m, m = Promised(contents)
  PROVE  /\ m \in [pid : SUBSET (Values \cup {"none"}), algorithm : SUBSET (Names \cup {"none"}),
                   arguments : [Names -> SUBSET (AllArguments \cup {Absent, Outdated, Torn})]]
         /\ "none" \in m.pid => Default \in m.pid
         /\ "none" \in m.algorithm => DefaultName \in m.algorithm
         /\ \A a \in Names : m.arguments[a] \cap {Absent, Outdated} # {} =>
                               Arguments(Default) \in m.arguments[a]
         /\ contents["config"] = Absent => Empty.pid \in m.pid /\ Empty.algorithm \in m.algorithm
         /\ contents["config"] \in Configs =>
              contents["config"].pid \in m.pid /\ contents["config"].algorithm \in m.algorithm
         /\ \A a \in Names : contents[a] \in m.arguments[a]
<1>1. PICK c : c = IF contents["config"] \in {Absent, Torn} THEN Empty ELSE contents["config"]
  OBVIOUS
<1>2. c \in Configs /\ (contents["config"] = Absent => c = Empty) /\ (contents["config"] \in Configs => c = contents["config"])
  BY <1>1, ContentFacts DEF ContentsOK
<1>3. /\ m = [pid |-> m.pid, algorithm |-> m.algorithm, arguments |-> m.arguments]
      /\ m.pid = IF c.pid = "none" THEN {c.pid, Default} ELSE {c.pid}
      /\ m.algorithm = IF c.algorithm = "none" THEN {c.algorithm, DefaultName} ELSE {c.algorithm}
      /\ m.arguments = [a \in Names |-> IF contents[a] \in {Absent, Outdated}
                                        THEN {contents[a], Arguments(Default)} ELSE {contents[a]}]
  BY <1>1 DEF Promised, OrDefault
<1>4. c.pid \in Values \cup {"none"} /\ c.algorithm \in Names \cup {"none"}
  BY <1>2, ConfigFacts
<1>5. m.pid \subseteq Values \cup {"none"} /\ m.algorithm \subseteq Names \cup {"none"}
  BY <1>3, <1>4, NamesFacts
<1>6. ASSUME NEW a \in Names
      PROVE  /\ m.arguments[a] \subseteq AllArguments \cup {Absent, Outdated, Torn}
             /\ m.arguments[a] \cap {Absent, Outdated} # {} => Arguments(Default) \in m.arguments[a]
             /\ contents[a] \in m.arguments[a]
  <2>1. contents[a] \in {Absent, Torn, Outdated} \cup AllArguments /\ Arguments(Default) \in AllArguments
    BY NamesFacts, ArgumentsFacts DEF ContentsOK
  <2> QED
    BY <1>3, <2>1
<1>7. m.arguments \in [Names -> SUBSET (AllArguments \cup {Absent, Outdated, Torn})]
  <2>1. m.arguments = [a \in Names |-> m.arguments[a]]
    BY <1>3
  <2> QED
    BY <1>6, <2>1
<1>8. m \in [pid : SUBSET (Values \cup {"none"}), algorithm : SUBSET (Names \cup {"none"}),
            arguments : [Names -> SUBSET (AllArguments \cup {Absent, Outdated, Torn})]]
  BY <1>3, <1>5, <1>7
<1>9. c.pid \in m.pid /\ c.algorithm \in m.algorithm
  BY <1>3
<1> QED
  BY <1>2, <1>3, <1>6, <1>8, <1>9

LEMMA InitKept == Init => KeptInv
<1> SUFFICES ASSUME Init PROVE Kept
  BY DEF KeptInv
<1>1. ContentsOK(files) /\ may = Promised(files)
  BY InitSafe DEF Init, SafeInv, LifeTypeOK, FilesTypeOK
<1>2. PICK m : m = may
  OBVIOUS
<1>3. MayInv /\ FilesKept
  BY <1>1, <1>2, PromisedHolds, NamesFacts DEF MayInv, FilesKept, Allowed, config
<1>4. \A q \in Threads : at[q] = "off" /\ Label(q) = "off" /\ job[q] = NoJob
  BY DEF Init, Label
<1>5. SavesKept /\ JobsKept
  BY <1>4, Two DEF SavesKept, JobsKept, NoJob
<1> QED
  BY <1>3, <1>5 DEF Kept

LEMMA BootKept == ASSUME SafeInv, UsedInv, UsedInv', KeptInv, Boot PROVE KeptInv'
<1>0. /\ "main" \in Threads /\ "wifi" \in Threads /\ ContentsOK(files)
      /\ at \in [Threads -> Labels] /\ save \in [Threads -> Saves] /\ job \in [Threads -> Jobs]
  BY Two DEF SafeInv, LifeTypeOK, FilesTypeOK, ThreadsTypeOK
<1>1. /\ files' = files /\ early' = FALSE /\ config' = config
      /\ may' = IF early THEN Promised(files) ELSE may
  BY DEF Boot, config
<1>2. at["main"] = "off" /\ at["wifi"] = "off" /\ job["wifi"].kind = "none"
  <2>1. at["main"] = "off" /\ at["wifi"] = "off"
    BY DEF Boot, SafeInv, TurnsInv, Label
  <2> QED
    BY <1>0, <2>1, KindOf DEF UsedInv, Idle
<1>3. at'["wifi"] = "off" /\ job'["wifi"].kind = "none"
  BY <1>0, <1>2 DEF Boot, Save, Goto
<1>4. /\ Label("main")' = "connect"
      /\ at'["main"] = "save" => /\ config = Absent /\ save'["main"].file = "config"
                                 /\ save'["main"].content = Empty
      /\ at'["main"] # "fill"
  BY <1>0 DEF Boot, Save, Goto, Label
<1>5. MayInv' /\ FilesKept'
  <2>1. CASE early
    <3>1. PICK m : m = may' /\ m = Promised(files)
      BY <1>1, <2>1
    <3> QED
      BY <1>0, <1>1, <3>1, PromisedHolds, NamesFacts DEF MayInv, FilesKept, Allowed, config
  <2>2. CASE ~early
    BY <1>1, <2>2 DEF KeptInv, Kept, MayInv, FilesKept, Allowed
  <2> QED
    BY <2>1, <2>2
<1>6. SavesKept'
  <2>1. at'["main"] = "save" => Empty.pid \in may'.pid /\ Empty.algorithm \in may'.algorithm
    BY <1>1, <1>4, <1>5 DEF FilesKept, Allowed
  <2> QED
    BY <1>3, <1>4, <2>1, Two DEF SavesKept, Allowed
<1>7. JobsKept'
  BY <1>3, <1>4 DEF JobsKept
<1> QED
  BY <1>5, <1>6, <1>7 DEF KeptInv, Kept

\* The process is over, and no thread does anything.
LEMMA OverRests ==
  ASSUME NEW contents, Over(contents)
  PROVE  SavesKept' /\ JobsKept'
<1>1. \A q \in Threads : at'[q] = "off" /\ Label(q)' = "off" /\ job'[q] = NoJob
  BY DEF Over, Label
<1> QED
  BY <1>1, Two DEF SavesKept, JobsKept, NoJob

\* An orderly end leaves the files as they are.
LEMMA OverKept ==
  ASSUME KeptInv, Over(files), UNCHANGED may
  PROVE  KeptInv'
BY OverRests, StillKept DEF Over, KeptInv

\* A power cut leaves what is on the card, and of what was not written back that is what the
\* files may hold from now on.
LEMMA CutKept ==
  ASSUME SafeInv, CardTypeOK, KeptInv, PowerCut
  PROVE  KeptInv'
<1>1. files' = card /\ early' = early /\ SavesKept' /\ JobsKept'
  BY OverRests DEF PowerCut, Over
<1>2. CASE early
  BY <1>1, <1>2 DEF KeptInv
<1>3. CASE ~early
  <2>1. MayInv /\ FilesKept
    BY <1>3 DEF KeptInv, Kept
  <2>2. PICK old : old = Promised(card)
    OBVIOUS
  <2>3. /\ old.pid \subseteq Values \cup {"none"} /\ old.algorithm \subseteq Names \cup {"none"}
        /\ old.arguments \in [Names -> SUBSET (AllArguments \cup {Absent, Outdated, Torn})]
        /\ "none" \in old.pid => Default \in old.pid
        /\ "none" \in old.algorithm => DefaultName \in old.algorithm
        /\ \A a \in Names : old.arguments[a] \cap {Absent, Outdated} # {} =>
                              Arguments(Default) \in old.arguments[a]
        /\ card["config"] = Absent => Empty.pid \in old.pid /\ Empty.algorithm \in old.algorithm
        /\ card["config"] \in Configs =>
             card["config"].pid \in old.pid /\ card["config"].algorithm \in old.algorithm
        /\ \A a \in Names : card[a] \in old.arguments[a]
    BY <2>2, PromisedHolds DEF CardTypeOK
  <2>4. PICK pid, chosen, arguments :
          /\ pid = IF card["config"] = config THEN may.pid ELSE old.pid
          /\ chosen = IF card["config"] = config THEN may.algorithm ELSE old.algorithm
          /\ arguments = [a \in Names |-> IF card[a] = files[a] THEN may.arguments[a]
                                          ELSE old.arguments[a]]
    OBVIOUS
  <2>5. may' = [pid |-> pid, algorithm |-> chosen, arguments |-> arguments]
    BY <2>2, <2>4 DEF PowerCut
  <2>6. /\ pid \in SUBSET (Values \cup {"none"}) /\ chosen \in SUBSET (Names \cup {"none"})
        /\ "none" \in pid => Default \in pid
        /\ "none" \in chosen => DefaultName \in chosen
    BY <2>1, <2>3, <2>4 DEF MayInv
  <2>7. ASSUME NEW a \in Names
        PROVE  /\ arguments[a] \in SUBSET (AllArguments \cup {Absent, Outdated, Torn})
               /\ arguments[a] \cap {Absent, Outdated} # {} => Arguments(Default) \in arguments[a]
               /\ card[a] = Torn \/ card[a] \in arguments[a]
    <3>1. CASE card[a] = files[a]
      BY <2>1, <2>4, <3>1, NamesFacts DEF MayInv, FilesKept, Allowed
    <3>2. CASE card[a] # files[a]
      BY <2>3, <2>4, <3>2
    <3> QED
      BY <3>1, <3>2
  <2>8. MayInv'
    <3>1. arguments \in [Names -> SUBSET (AllArguments \cup {Absent, Outdated, Torn})]
      BY <2>4, <2>7
    <3> QED
      BY <2>5, <2>6, <2>7, <3>1 DEF MayInv
  <2>9. /\ card["config"] = Absent => Empty.pid \in pid /\ Empty.algorithm \in chosen
        /\ card["config"] \in Configs =>
             card["config"].pid \in pid /\ card["config"].algorithm \in chosen
    BY <2>1, <2>3, <2>4 DEF FilesKept, Allowed
  <2>10. FilesKept'
    BY <1>1, <2>5, <2>7, <2>9, NamesFacts DEF FilesKept, Allowed, config
  <2> QED
    BY <1>1, <2>8, <2>10 DEF KeptInv, Kept
<1> QED
  BY <1>2, <1>3

\* A request: what it asks for may be in the files from now on.
LEMMA RequestKept ==
  ASSUME SafeInv, UsedInv, KeptInv, NEW label \in {"getPid", "setPid", "saveArguments", "load"},
         Request(label), job'["main"] = job["main"],
         MayInv', may.pid \subseteq may'.pid, may.algorithm \subseteq may'.algorithm,
         \A a \in Names : may.arguments[a] \subseteq may'.arguments[a],
         job'["wifi"].kind = "setPid" => job'["wifi"].pid \in Values \cap may'.pid,
         job'["wifi"].kind = "setAlgorithm" =>
           /\ job'["wifi"].name \in Names \cap may'.algorithm /\ job'["wifi"].value \in Values
           /\ Arguments(job'["wifi"].value) \in may'.arguments[job'["wifi"].name]
  PROVE  KeptInv'
<1>1. /\ at["wifi"] = "ready" /\ at' = [at EXCEPT !["wifi"] = label] /\ UNCHANGED <<files, save>>
      /\ early' = (early \/ at["main"] # "loop")
      /\ at \in [Threads -> Labels] /\ save \in [Threads -> Saves]
  BY DEF Request, Arrive, Goto, SafeInv, LifeTypeOK, ThreadsTypeOK
<1>2. CASE early'
  BY <1>2 DEF KeptInv
<1>3. CASE ~early'
  <2>1. Kept /\ at["main"] = "loop"
    BY <1>1, <1>3 DEF KeptInv
  <2>2. at'["main"] = "loop" /\ at'["wifi"] = label
    BY <1>1, <2>1, Two
  <2>3. Label("main")' = "loop" /\ Label("wifi")' = label
    BY <2>2 DEF Label
  <2>4. SavesKept'
    BY <2>2, Two DEF SavesKept
  <2>5. FilesKept'
    BY <1>1, <2>1 DEF Kept, FilesKept, Allowed, config
  <2>6. JobsKept'
    BY <2>3, NamesFacts DEF JobsKept, Allowed
  <2> QED
    BY <2>4, <2>5, <2>6 DEF KeptInv, Kept
<1> QED
  BY <1>2, <1>3

LEMMA AppKept == ASSUME SafeInv, UsedInv, KeptInv, App PROVE KeptInv'
<1>0. "wifi" \in Threads /\ "main" \in Threads /\ job \in [Threads -> Jobs]
  BY Two DEF SafeInv, LifeTypeOK, ThreadsTypeOK
<1>1. CASE early
  <2>1. early'
    BY <1>1 DEF App, AskPid, ChangePid, ChangeAlgorithm, AskAlgorithms, StartOrStop, Request, Arrive
  <2> QED
    BY <2>1 DEF KeptInv
<1>2. CASE ~early
  <2>0. Kept /\ MayInv
    BY <1>2 DEF KeptInv, Kept
  <2>1. CASE AskPid
    <3>1. /\ Request("getPid") /\ UNCHANGED may
          /\ job'["main"] = job["main"] /\ job'["wifi"].kind = "getPid"
      BY <1>0, <2>1, NewJobs DEF AskPid
    <3> QED
      BY <2>0, <3>1, RequestKept DEF MayInv
  <2>2. CASE ChangePid
    <3>1. PICK pid \in Values :
            /\ Request("setPid")
            /\ job' = [job EXCEPT !["wifi"] = [NoJob EXCEPT !.kind = "setPid", !.pid = pid]]
            /\ may' = [may EXCEPT !.pid = @ \cup {pid}]
      BY <2>2 DEF ChangePid
    <3>2. job'["main"] = job["main"] /\ job'["wifi"].kind = "setPid" /\ job'["wifi"].pid = pid
      BY <1>0, <3>1, NewJobs
    <3>3. /\ may'.pid = may.pid \cup {pid} /\ may'.algorithm = may.algorithm
          /\ may'.arguments = may.arguments
      BY <2>0, <3>1 DEF MayInv
    <3>4. MayInv'
      BY <2>0, <3>1, <3>3, NamesFacts DEF MayInv
    <3> QED
      BY <3>1, <3>2, <3>3, <3>4, RequestKept
  <2>3. CASE ChangeAlgorithm
    <3>1. PICK name \in Names, value \in Values :
            /\ Request("saveArguments")
            /\ job' = [job EXCEPT !["wifi"] =
                         [NoJob EXCEPT !.kind = "setAlgorithm", !.name = name, !.value = value]]
            /\ may' = [may EXCEPT !.algorithm = @ \cup {name},
                                  !.arguments[name] = @ \cup {Arguments(value)}]
      BY <2>3 DEF ChangeAlgorithm
    <3> DEFINE j == [NoJob EXCEPT !.kind = "setAlgorithm", !.name = name, !.value = value]
    <3>2. j.kind = "setAlgorithm" /\ j.name = name /\ j.value = value
      BY NewJobs DEF Jobs
    <3>3. job' = [job EXCEPT !["wifi"] = j]
      BY <3>1
    <3> HIDE DEF j
    <3>4. job'["main"] = job["main"] /\ job'["wifi"] = j
      BY <1>0, <3>3
    <3>5. /\ may'.pid = may.pid /\ may'.algorithm = may.algorithm \cup {name}
          /\ may'.arguments = [may.arguments EXCEPT ![name] = @ \cup {Arguments(value)}]
      BY <2>0, <3>1 DEF MayInv
    <3>6. \A a \in Names :
            may'.arguments[a] = IF a = name THEN may.arguments[a] \cup {Arguments(value)}
                                ELSE may.arguments[a]
      BY <2>0, <3>5 DEF MayInv
    <3>7. Arguments(value) \in AllArguments
      BY ArgumentsFacts
    <3>8. /\ may' \in [pid : SUBSET (Values \cup {"none"}), algorithm : SUBSET (Names \cup {"none"}),
                       arguments : [Names -> SUBSET (AllArguments \cup {Absent, Outdated, Torn})]]
      <4>1. may'.arguments \in [Names -> SUBSET (AllArguments \cup {Absent, Outdated, Torn})]
        BY <2>0, <3>5, <3>7 DEF MayInv
      <4>2. may' = [pid |-> may.pid, algorithm |-> may'.algorithm, arguments |-> may'.arguments]
        BY <2>0, <3>1, <3>5 DEF MayInv
      <4>3. /\ may.pid \in SUBSET (Values \cup {"none"})
            /\ may'.algorithm \in SUBSET (Names \cup {"none"})
        BY <2>0, <3>5 DEF MayInv
      <4> QED
        BY <4>1, <4>2, <4>3
    <3>9. \A a \in Names : may'.arguments[a] \cap {Absent, Outdated} # {} =>
                            Arguments(Default) \in may'.arguments[a]
      BY <2>0, <3>6, <3>7, ContentFacts DEF MayInv
    <3>10. MayInv'
      BY <2>0, <3>5, <3>8, <3>9, NamesFacts DEF MayInv
    <3> QED
      BY <3>1, <3>2, <3>4, <3>5, <3>6, <3>10, RequestKept
  <2>4. CASE AskAlgorithms
    <3>1. /\ Request("load") /\ UNCHANGED may
          /\ job'["main"] = job["main"] /\ job'["wifi"].kind = "list"
      BY <1>0, <2>4, NewJobs DEF AskAlgorithms
    <3> QED
      BY <2>0, <3>1, RequestKept DEF MayInv
  <2>5. CASE StartOrStop
    <3>1. UNCHANGED <<files, at, job, save, may>>
      BY <2>5 DEF StartOrStop, threads
    <3>2. /\ \A q \in Threads : Label(q)' = Label(q)
          /\ \A f : Disk(f)' = Disk(f)
      BY <3>1 DEF Label, Disk, Saving
    <3>3. SavesKept'
      BY <2>0, <3>1 DEF Kept, SavesKept, Allowed
    <3> QED
      BY <2>0, <3>1, <3>2, <3>3, JobsView, StillKept DEF Kept, KeptInv
  <2> QED
    BY <2>1, <2>2, <2>3, <2>4, <2>5 DEF App
<1> QED
  BY <1>1, <1>2

\* An answer: from now on the files hold nothing else, and that is what they do hold.
LEMMA ReplyKept == ASSUME SafeInv, UsedInv, KeptInv, Reply PROVE KeptInv'
<1>1. /\ at["wifi"] = "reply" /\ at' = [at EXCEPT !["wifi"] = "ready"] /\ Idle("wifi")
      /\ UNCHANGED <<files, save, early>> /\ job' = [job EXCEPT !["wifi"] = NoJob]
      /\ at \in [Threads -> Labels] /\ job \in [Threads -> Jobs]
  BY DEF Reply, Goto, Idle, SafeInv, LifeTypeOK, ThreadsTypeOK
<1>2. CASE early
  BY <1>1, <1>2 DEF KeptInv
<1>3. CASE ~early
  <2>1. Kept /\ MayInv /\ JobsKept /\ FilesKept
    BY <1>3 DEF KeptInv, Kept
  <2>2. /\ Label("wifi") = "reply" /\ Disk("config") = config /\ config \in Configs
        /\ \A f : Disk(f) = files[f]
    BY <1>1, <1>3, WifiKnows
  <2>3. at["main"] = "loop"
    BY <1>1, <1>3 DEF SafeInv, TurnsInv
  <2>4. /\ at'["main"] = "loop" /\ at'["wifi"] = "ready"
        /\ Label("main")' = "loop" /\ job'["wifi"].kind = "none"
    BY <1>1, <2>3, NewJobs, Two DEF Label
  <2>5. SavesKept' /\ JobsKept'
    BY <2>4, Two DEF SavesKept, JobsKept
  <2>6. MayInv' /\ FilesKept'
    <3>1. CASE job["wifi"].kind = "setPid"
      <4>1. may' = [may EXCEPT !.pid = {job["wifi"].pid}]
        BY <3>1 DEF Reply
      <4>2. job["wifi"].pid \in Values /\ config.pid = job["wifi"].pid
        BY <2>1, <2>2, <3>1 DEF JobsKept
      <4>3. /\ may'.pid = {job["wifi"].pid} /\ may'.algorithm = may.algorithm
            /\ may'.arguments = may.arguments
        BY <2>1, <4>1 DEF MayInv
      <4>4. MayInv'
        BY <2>1, <4>1, <4>2, <4>3, NamesFacts DEF MayInv
      <4>5. FilesKept'
        BY <1>1, <2>1, <2>2, <4>2, <4>3, ContentFacts, NamesFacts DEF FilesKept, Allowed, config
      <4> QED
        BY <4>4, <4>5
    <3>2. CASE job["wifi"].kind = "setAlgorithm"
      <4>1. PICK name, value : name = job["wifi"].name /\ value = job["wifi"].value
        OBVIOUS
      <4>2. may' = [may EXCEPT !.algorithm = {name}, !.arguments[name] = {Arguments(value)}]
        BY <3>2, <4>1 DEF Reply
      <4>3. /\ name \in Names /\ value \in Values /\ config.algorithm = name
            /\ files[name] = Arguments(value)
        BY <2>1, <2>2, <3>2, <4>1, StoredIs, Two DEF JobsKept, Selected
      <4>4. /\ may'.pid = may.pid /\ may'.algorithm = {name}
            /\ may'.arguments = [may.arguments EXCEPT ![name] = {Arguments(value)}]
        BY <2>1, <4>2 DEF MayInv
      <4>5. \A a \in Names :
              may'.arguments[a] = IF a = name THEN {Arguments(value)} ELSE may.arguments[a]
        BY <2>1, <4>4 DEF MayInv
      <4>6. Arguments(value) \in AllArguments
        BY <4>3, ArgumentsFacts
      <4>7. /\ may' \in [pid : SUBSET (Values \cup {"none"}), algorithm : SUBSET (Names \cup {"none"}),
                         arguments : [Names -> SUBSET (AllArguments \cup {Absent, Outdated, Torn})]]
        <5>1. may'.arguments \in [Names -> SUBSET (AllArguments \cup {Absent, Outdated, Torn})]
          <6>1. may.arguments \in [Names -> SUBSET (AllArguments \cup {Absent, Outdated, Torn})]
            BY <2>1 DEF MayInv
          <6>2. {Arguments(value)} \in SUBSET (AllArguments \cup {Absent, Outdated, Torn})
            BY <4>6
          <6> QED
            BY <4>4, <6>1, <6>2
        <5>2. may' = [pid |-> may.pid, algorithm |-> {name}, arguments |-> may'.arguments]
          BY <2>1, <4>2, <4>4 DEF MayInv
        <5>3. may.pid \in SUBSET (Values \cup {"none"}) /\ {name} \in SUBSET (Names \cup {"none"})
          BY <2>1, <4>3 DEF MayInv
        <5> QED
          BY <5>1, <5>2, <5>3
      <4>8. \A a \in Names : may'.arguments[a] \cap {Absent, Outdated} # {} =>
                              Arguments(Default) \in may'.arguments[a]
        BY <2>1, <4>5, <4>6, ContentFacts DEF MayInv
      <4>9. MayInv'
        BY <2>1, <4>3, <4>4, <4>7, <4>8, NamesFacts DEF MayInv
      <4>10. FilesKept'
        BY <1>1, <2>1, <2>2, <4>3, <4>4, <4>5, ContentFacts, NamesFacts DEF FilesKept, Allowed, config
      <4> QED
        BY <4>9, <4>10
    <3>3. CASE job["wifi"].kind \notin {"setPid", "setAlgorithm"}
      <4>1. may' = may
        BY <3>3 DEF Reply
      <4> QED
        BY <1>1, <2>1, <4>1 DEF MayInv, FilesKept, Allowed, config
    <3> QED
      BY <3>1, <3>2, <3>3
  <2> QED
    BY <2>5, <2>6 DEF KeptInv, Kept
<1> QED
  BY <1>2, <1>3

LEMMA NextKept ==
  SafeInv /\ CardTypeOK /\ UsedInv /\ UsedInv' /\ KeptInv /\ [Next]_vars => KeptInv'
<1> SUFFICES ASSUME SafeInv, CardTypeOK, UsedInv, UsedInv', KeptInv, [Next]_vars PROVE KeptInv'
  OBVIOUS
<1>1. CASE Boot
  BY <1>1, BootKept
<1>2. CASE Main
  BY <1>2, WorkKept, MainStepsKept, Two DEF Main
<1>3. CASE Wifi
  BY <1>3, WorkKept, ReplyKept, Two DEF Wifi
<1>4. CASE InitFails \/ BeepHangs
  BY <1>4, MainStepsKept
<1>5. CASE Ends
  BY <1>5, OverKept, CutKept DEF Ends, Exit, Halt
<1>6. CASE App
  BY <1>6, AppKept
<1>7. CASE UNCHANGED <<files, threads, robot, history>>
  <2>1. UNCHANGED <<files, at, job, save, may, early>>
    BY <1>7 DEF threads, history
  <2>2. /\ \A q \in Threads : Label(q)' = Label(q)
        /\ \A f : Disk(f)' = Disk(f)
    BY <2>1 DEF Label, Disk, Saving
  <2>3. Kept => Kept'
    BY <2>1, <2>2, JobsView, StillKept DEF Kept, SavesKept, Allowed
  <2> QED
    BY <2>1, <2>3 DEF KeptInv
<1> QED
  BY <1>1, <1>2, <1>3, <1>4, <1>5, <1>6, <1>7, SyncLeaves DEF Next, vars

\* Without a request during the initialisation the files, and every save in progress, hold
\* only what is promised, and an answered request's own values.
THEOREM SettingsPromised == Spec => [](SafeInv /\ UsedInv /\ KeptInv)
<1>1. Init => KeptInv
  BY InitKept
<1>2. SafeInv /\ CardTypeOK /\ UsedInv /\ UsedInv' /\ KeptInv /\ [Next]_vars => KeptInv'
  BY NextKept
<1> QED
  BY <1>1, <1>2, FilesSafe, SettingsUsed, PTL DEF Spec

\* What the app was told is saved stays saved however the process ends, and over a power cut
\* once it was written back, until the app saves another value; of what it had asked for at
\* the end, and of what was not written back, the file has the new value, an older one or
\* nothing that parses. All this unless a request was served while the core initialised
\* (utils/config.py, algorithms/algorithm.py).
THEOREM SettingsAreKept == Spec => []SettingsKept
<1>1. SafeInv /\ KeptInv => SettingsKept
  <2> SUFFICES ASSUME SafeInv, KeptInv, ~early PROVE SettingsKept
    BY DEF SettingsKept
  <2>1. Kept
    BY DEF KeptInv
  <2>2. config \notin {Absent, Torn} => config \in Configs
    BY DEF SafeInv, LifeTypeOK, FilesTypeOK, ContentsOK, config
  <2> QED
    BY <2>1, <2>2, NamesFacts DEF Kept, FilesKept, Allowed, SettingsKept
<1> QED
  BY SettingsPromised, <1>1, PTL

-----------------------------------------------------------------------------
(* Why the initialisation fails.                                            *)

\* A cleaning starts in the loop, or by an early request.
WorkInv ==
  /\ working => early \/ Label("main") = "loop"
  /\ Label("main") = "off" => ~working

FatalInv ==
  /\ WorkInv
  /\ Label("main") = "dead" => Idle("main") /\ (tornBefore # {} \/ early \/ PidRefused)

LEMMA StillFatal ==
  ASSUME FatalInv, UNCHANGED <<working, early, tornBefore>>, Label("main")' = Label("main"),
         Label("main") # "dead" \/ (at'["main"] = at["main"] /\ (early \/ config' = config))
  PROVE  FatalInv'
BY DEF FatalInv, WorkInv, PidRefused, Idle

\* The main thread goes on, and does not fail.
LEMMA OnFatal ==
  ASSUME SafeInv, FatalInv, UNCHANGED <<working, early, tornBefore>>, Idle("main"),
         at["main"] # "loop", NEW label, label \notin {"off", "dead", "save", "fill"},
         Lands("main", label)
  PROVE  FatalInv'
<1>1. Label("main")' = label
  BY LandsLabel, Two DEF SafeInv
<1>2. Label("main") # "loop"
  BY DEF Label, Idle
<1> QED
  BY <1>1, <1>2 DEF FatalInv, WorkInv

\* It fails, of a file that it cannot read, or that holds what A1 refuses.
LEMMA FailFatal ==
  ASSUME SafeInv, FatalInv, Fail("main"), Idle("main"), at["main"] # "loop",
         early \/ tornBefore # {} \/ PidRefused
  PROVE  FatalInv'
<1>1. Lands("main", "dead") /\ UNCHANGED <<working, early, tornBefore, config>>
  BY DEF Fail, Lands, robot, config
<1>2. Label("main")' = "dead" /\ Label("main") # "loop" /\ Idle("main")'
  BY <1>1, LandsLabel, Two DEF SafeInv, Label, Idle, Fail, Goto, LifeTypeOK, ThreadsTypeOK
<1> QED
  BY <1>1, <1>2 DEF FatalInv, WorkInv, PidRefused

LEMMA TornIsOld ==
  ASSUME SafeInv, Idle("main"), at["main"] \notin {"off", "ready", "loop", "connect"},
         NEW f \in Files, files[f] = Torn
  PROVE  early \/ tornBefore # {}
<1>1. CASE ~early
  <2>1. Idle("wifi")
    BY <1>1, Alone, Two DEF Other
  <2> QED
    BY <2>1, Two DEF SafeInv, TornOnlyByCrash, TornFiles, Idle
<1> QED
  BY <1>1

LEMMA MainWorkFatal ==
  ASSUME SafeInv, UsedInv, FatalInv, Work("main")
  PROVE  FatalInv'
<1>0. "main" \in Threads /\ "wifi" \in Threads /\ KindInv
  BY Two DEF UsedInv
<1>1. CASE Truncate("main") \/ Fill("main")
  <2>1. Label("main") # "dead"
    BY <1>1 DEF Truncate, Fill, FatalInv, Idle
  <2> QED
    BY <1>0, <1>1, <2>1, TruncateKeeps, FillKeeps, StillFatal DEF Truncate, Fill, robot, history
<1>2. CASE ConfigTorn("main")
  <2>1. Idle("main") /\ at["main"] \notin {"off", "ready", "loop", "connect"} /\ files["config"] = Torn
    BY <1>0, <1>2, Unlike DEF ConfigTorn, config
  <2> QED
    BY <1>2, <2>1, TornIsOld, NamesFacts, FailFatal DEF ConfigTorn
<1>3. CASE SetAlgorithm("main")
  <2>1. at["main"] = "setAlgorithm" /\ Idle("main")
    BY <1>3 DEF SetAlgorithm, Idle
  <2>2. CASE working
    <3>1. early
      BY <2>1, <2>2 DEF FatalInv, WorkInv, Label
    <3> QED
      BY <1>3, <2>1, <2>2, <3>1, FailFatal DEF SetAlgorithm
  <2>3. CASE ~working
    BY <1>3, <2>1, <2>3, OnFatal DEF SetAlgorithm, Lands, robot, history
  <2> QED
    BY <2>2, <2>3
<1>4. CASE Load("main")
  <2>1. /\ at["main"] = "load" /\ Idle("main") /\ Label("main") = "load"
        /\ at["main"] \notin {"off", "ready", "loop", "connect"}
    BY <1>0, <1>4, Unlike DEF Load
  <2>2. PICK name \in Names : name = job["main"].name
    BY <1>0, <2>1 DEF SafeInv, JobInv, NameLabel
  <2>3. CASE files[name] = Torn
    BY <1>4, <2>1, <2>2, <2>3, TornIsOld, NamesFacts, FailFatal DEF Load
  <2>4. CASE files[name] # Torn
    <3>1. Lands("main", "loaded") /\ UNCHANGED <<working, early, tornBefore>>
      BY <1>4, <2>2, <2>4 DEF Load, Lands, robot, history
    <3> QED
      BY <2>1, <3>1, OnFatal
  <2> QED
    BY <2>3, <2>4
<1>5. CASE ListNext("main")
  <2>1. at["main"] = "loaded" /\ Idle("main") /\ job["main"].kind = "list"
    BY <1>5 DEF ListNext, Idle
  <2> QED
    BY <1>0, <2>1, KindOf
<1>6. CASE GetPid("main")
  <2>1. Lands("main", "sendPid") /\ UNCHANGED <<working, early, tornBefore>>
    BY <1>6 DEF GetPid, Lands, robot, history
  <2>2. Idle("main") /\ at["main"] # "loop"
    BY <1>6 DEF GetPid, Readable, Idle
  <2> QED
    BY <2>1, <2>2, OnFatal
<1>7. CASE SetPid("main")
  <2>1. Lands("main", "sendPid") /\ UNCHANGED <<working, early, tornBefore>>
    BY <1>7 DEF SetPid, Lands, robot, history
  <2>2. Idle("main") /\ at["main"] # "loop"
    BY <1>7 DEF SetPid, Readable, Idle
  <2> QED
    BY <2>1, <2>2, OnFatal
<1>8. CASE SendPid("main")
  <2>1. /\ Idle("main") /\ at["main"] = "sendPid"
        /\ at["main"] \notin {"off", "ready", "loop", "connect"} /\ Label("main") = "sendPid"
    BY <1>8 DEF SendPid, Idle, Label
  <2>2. CASE PidSent("main")
    BY <2>1, <2>2, OnFatal DEF PidSent, Lands, history
  <2>3. CASE Fail("main") /\ job["main"].pid \notin Accepted
    <3>1. job["main"].pid \in Values
      BY <1>0, <2>1 DEF SafeInv, JobInv
    <3>2. CASE ~early
      <4>1. config \in Configs /\ config.pid = job["main"].pid
        BY <2>1, <3>2, MainKnows DEF Configured
      <4>2. PidRefused
        BY <2>3, <3>1, <4>1, ContentFacts DEF PidRefused
      <4> QED
        BY <2>1, <2>3, <4>2, FailFatal
    <3> QED
      BY <2>1, <2>3, <3>2, FailFatal
  <2> QED
    BY <1>8, <2>2, <2>3, SendPidIs
<1>9. CASE GetSelected("main")
  <2>1. PICK label \in {"setSelected", "setAlgorithm"} : Goto("main", label)
    BY <1>9 DEF GetSelected
  <2> QED
    BY <1>9, <2>1, OnFatal DEF GetSelected, Readable, Idle, Lands, robot, history
<1>10. CASE SaveArguments("main")
  BY <1>10, OnFatal DEF SaveArguments, Idle, Lands, robot, history
<1>11. CASE SetSelected("main")
  BY <1>11, OnFatal DEF SetSelected, Readable, Idle, Lands, robot, history
<1>12. CASE Assign("main")
  BY <1>12, OnFatal DEF Assign, Idle, Lands, history
<1> QED
  BY <1>1, <1>2, <1>3, <1>4, <1>5, <1>6, <1>7, <1>8, <1>9, <1>10, <1>11, <1>12 DEF Work

\* The Wi-Fi thread's steps are none of the main thread's.
LEMMA WifiFatal ==
  ASSUME SafeInv, FatalInv, Work("wifi") \/ Reply
  PROVE  FatalInv'
<1>0. at["wifi"] \notin {"off", "ready"}
  BY DEF Work, Truncate, Fill, ConfigTorn, GetPid, SetPid, SendPid, GetSelected,
     SaveArguments, SetSelected, SetAlgorithm, Load, Assign, ListNext, Reply, Readable
<1>1. at'["main"] = at["main"] /\ save'["main"] = save["main"]
  BY Two DEF Work, Truncate, Fill, ConfigTorn, Fail, GetPid, SetPid, SendPid, GetSelected,
     SaveArguments, SetSelected, SetAlgorithm, Load, Assign, ListNext, Reply, Save, Goto,
     SafeInv, LifeTypeOK, ThreadsTypeOK
<1>2. UNCHANGED <<working, early, tornBefore>>
  BY DEF Work, Truncate, Fill, ConfigTorn, Fail, GetPid, SetPid, SendPid, GetSelected,
     SaveArguments, SetSelected, SetAlgorithm, Load, Assign, ListNext, Reply, robot, history
<1>3. Label("main") # "dead" \/ early
  BY <1>0 DEF SafeInv, TurnsInv, FatalInv, Label, Idle
<1> QED
  BY <1>1, <1>2, <1>3, StillFatal DEF Label

LEMMA InitFatal == Init => FatalInv
BY Two DEF Init, FatalInv, WorkInv, Label

LEMMA NextFatal == SafeInv /\ UsedInv /\ FatalInv /\ [Next]_vars => FatalInv'
<1> SUFFICES ASSUME SafeInv, UsedInv, FatalInv, [Next]_vars PROVE FatalInv'
  OBVIOUS
<1>0. at \in [Threads -> Labels] /\ "main" \in Threads /\ "wifi" \in Threads
  BY Two DEF SafeInv, LifeTypeOK, ThreadsTypeOK
<1>1. CASE Boot
  <2>1. Lands("main", "connect") /\ at["main"] = "off" /\ UNCHANGED working
    BY <1>1 DEF Boot, Lands, robot
  <2>2. Label("main")' = "connect" /\ ~working
    BY <1>0, <2>1, LandsLabel DEF SafeInv, Idle, FatalInv, WorkInv, Label
  <2> QED
    BY <2>1, <2>2 DEF FatalInv, WorkInv
<1>2. CASE Main
  <2>1. CASE StartWifi
    BY <1>0, <2>1 DEF StartWifi, FatalInv, WorkInv, Label, robot, history
  <2>2. CASE SetDateTime
    BY <2>2, OnFatal DEF SetDateTime, Idle, Lands, robot, history
  <2> QED
    BY <1>2, <2>1, <2>2, MainWorkFatal DEF Main
<1>3. CASE Wifi
  BY <1>3, WifiFatal DEF Wifi
<1>4. CASE InitFails \/ BeepHangs
  BY <1>4, OnFatal DEF InitFails, BeepHangs, InitStops, Idle, Lands, robot, history
<1>5. CASE Ends
  BY <1>0, <1>5, EndsOver DEF Over, FatalInv, WorkInv, Label
<1>6. CASE App
  <2>1. /\ early' = (early \/ at["main"] # "loop") /\ tornBefore' = tornBefore
        /\ at["wifi"] = "ready"
    BY <1>6 DEF App, AskPid, ChangePid, ChangeAlgorithm, AskAlgorithms, StartOrStop, Request, Arrive
  <2>2. at'["main"] = at["main"] /\ save' = save /\ config' = config
    BY <1>0, <1>6 DEF App, AskPid, ChangePid, ChangeAlgorithm, AskAlgorithms, StartOrStop, Request,
                      Goto, threads, config
  <2>3. Label("main")' = Label("main") /\ (at["main"] = "loop" => Label("main") = "loop")
    BY <2>2 DEF Label
  <2>4. Label("main") # "off"
    BY <2>1 DEF SafeInv, TurnsInv
  <2> QED
    BY <2>1, <2>2, <2>3, <2>4 DEF FatalInv, WorkInv, PidRefused, Idle
<1>7. CASE UNCHANGED <<files, threads, robot, history>>
  BY <1>7, StillFatal DEF threads, robot, history, Label, config
<1> QED
  BY <1>1, <1>2, <1>3, <1>4, <1>5, <1>6, <1>7, SyncLeaves DEF Next, vars

\* The initialisation fails for a file only when one was left torn by the life before, when a
\* request was served while it ran, or when the configuration has PID settings that A1 refuses,
\* as the app may have it saved: what is merely missing or outdated it replaces, and no cleaning
\* can be on its way when it selects the algorithm (core.py, algo_manager.py).
THEOREM OnlyTornIsFatal == Spec => []DiesOnlyOfTorn
<1>1. SafeInv /\ UsedInv /\ FatalInv /\ [Next]_vars => FatalInv'
  BY NextFatal
<1>2. FatalInv => DiesOnlyOfTorn
  BY DEF FatalInv, DiesOnlyOfTorn, Label
<1> QED
  BY InitFatal, <1>1, <1>2, SettingsUsed, PTL DEF Spec
=============================================================================
